---- MODULE Spec2Model ----
(***************************************************************************)
(* Model of the DAG execution engine of manus_demo: the TaskDAG graph      *)
(* (dag/graph.py), the node state machine (dag/state_machine.py) and the   *)
(* super-step executor (dag/executor.py).                                  *)
(*                                                                         *)
(* A Python `str | None` is a sequence: <<>> is None, <<s>> is the string  *)
(* s.  A string is a sequence of characters.  A dict is a function whose   *)
(* DOMAIN is its key set; the insertion order of dag.nodes is `order`.     *)
(***************************************************************************)
EXTENDS Integers, Sequences, FiniteSets, TLC

VARIABLES
    order,          \* dag.nodes: the node ids in dict iteration order
    nodes,          \* dag.nodes: id -> TaskNode
    edges,          \* dag.edges: list of TaskEdge
    node_results,   \* dag.state.node_results: id -> output text
    max_parallel,   \* DAGExecutor._max_parallel
    pc,             \* position of execute()
    batch,          \* execute(): the batch of the current super-step
    started,        \* number of _run_node tasks of the gather that have begun
    results,        \* position in batch -> <<StepResult>> once the task returned
    overtaken,      \* a task of the gather returned before one that precedes it in batch
    idx,            \* execute(): position of the merge loop in zip(batch, results)
    rb_idx,         \* _handle_failure(): position in rollback_targets
    output,         \* return value of execute(): <<>> until it returns
    events,         \* observer callbacks (node_transition) fired by the last step
    writes,         \* every assignment to a node.status made by the last step
    runner_calls,   \* node ids passed to ExecutorAgent.execute_node, in call order
    node_failed,    \* node ids for which the "node_failed" event was emitted
    checkpoints,    \* dag._checkpoints
    answer,         \* what the Reflector answered in the last step: <<>> if it was not asked
    err,            \* exception raised by the last call ("none" when it returned)
    call,           \* the API call made by the last step of a harness
    ret,            \* what that call returned
    router,         \* ToolRouter: _threshold and _stats (node -> tool -> ToolStats)
    history,        \* the record_success / record_failure calls made so far
    todo_list       \* TodoList: todos (id -> TodoItem) and next_id

vars == <<order, nodes, edges, node_results, max_parallel, pc, batch, started,
          results, overtaken, idx, rb_idx, output, events, writes, runner_calls,
          node_failed, checkpoints, answer, err, call, ret, router, history, todo_list>>

(***************************************************************************)
(* Bounds of the model                                                     *)
(***************************************************************************)
MaxEdges == 2          \* at most this many edges in an initial graph
MaxParallelArg == 2    \* the max_parallel argument, when one is given
MaxCalls == 2          \* calls in a sequence of mutation calls
MaxRecorded == 3       \* record_success / record_failure calls on a ToolRouter
MaxTodos == 3          \* todos added to a TodoList

\* the node ids of an initial graph, in the order they were inserted
NodeIds == {1, 2, 3}

\* an id that is not in nodes (the endpoint of a dangling edge)
Absent == 0

(***************************************************************************)
(* schema.py enums                                                         *)
(***************************************************************************)
PENDING     == "pending"
READY       == "ready"
RUNNING     == "running"
COMPLETED   == "completed"
FAILED      == "failed"
SKIPPED     == "skipped"
ROLLED_BACK == "rolled_back"
NodeStatus  == {PENDING, READY, RUNNING, COMPLETED, FAILED, SKIPPED, ROLLED_BACK}

GOAL     == "goal"
SUBGOAL  == "subgoal"
ACTION_NODE == "action"   \* NodeType.ACTION (ACTION is a TLA+ keyword)
NodeType == {GOAL, SUBGOAL, ACTION_NODE}

DEPENDENCY  == "dependency"
CONDITIONAL == "conditional"
ROLLBACK    == "rollback"
EdgeType    == {DEPENDENCY, CONDITIONAL, ROLLBACK}

\* config.MAX_PARALLEL_NODES
MAX_PARALLEL_NODES == 3

\* config.TOOL_FAILURE_THRESHOLD
TOOL_FAILURE_THRESHOLD == 2

(***************************************************************************)
(* Strings                                                                 *)
(***************************************************************************)
\* str.lower() on the characters the model uses
LowerChar(c) == CASE c = "A" -> "a" [] c = "B" -> "b" [] OTHER -> c

Lower(s) == [i \in 1..Len(s) |-> LowerChar(s[i])]

\* `k in s` for two strings
Contains(k, s) ==
    \E i \in 0..(Len(s) - Len(k)) : SubSeq(s, i + 1, i + Len(k)) = k

\* the texts an ActionRunner returns in the model
OutYes == <<"x", "A", "b">>
OutNo  == <<"b", "a">>
OutErr == <<"E">>
Outputs == {OutYes, OutNo, OutErr}

\* what a call of ExecutorAgent.execute_node returns in the model: success
\* with either text, or failure with the error text
Outcomes == {<<TRUE, OutYes>>, <<TRUE, OutNo>>, <<FALSE, OutErr>>}

\* the condition keyword of the model's CONDITIONAL edges
Keyword == <<"a", "B">>

(***************************************************************************)
(* Generic helpers                                                         *)
(***************************************************************************)
Range(s) == {s[i] : i \in 1..Len(s)}

\* [e.source for e in es] and [e.target for e in es]
Sources(es) == [i \in 1..Len(es) |-> es[i].source]

Targets(es) == [i \in 1..Len(es) |-> es[i].target]

\* the elements of a set of integers in increasing order
RECURSIVE SortedSeq(_)
SortedSeq(S) ==
    IF S = {} THEN <<>>
    ELSE LET m == CHOOSE x \in S : \A y \in S : x <= y
         IN  <<m>> \o SortedSeq(S \ {m})

\* dict assignment d[k] = v
DictSet(d, k, v) == [x \in DOMAIN d \cup {k} |-> IF x = k THEN v ELSE d[x]]

(***************************************************************************)
(* The value threaded through one step: the graph, what the step has       *)
(* written and emitted so far, and the exception it raised, if any.        *)
(***************************************************************************)
NoErr == "none"

Cur ==
    [order |-> order, nodes |-> nodes, edges |-> edges, node_results |-> node_results,
     runner_calls |-> runner_calls, node_failed |-> node_failed,
     set_order |-> SortedSeq(DOMAIN nodes \cup {Absent}),
     events |-> <<>>, writes |-> <<>>, err |-> NoErr,
     task |-> "task", context |-> "", observer |-> "returns"]

\* the orders in which a loop over a set of ids may meet them (the order of
\* a Python set of strings depends on the hash seed of the process)
SetOrders(ids) ==
    {f \in [1..Cardinality(ids) -> ids] : \A i, j \in DOMAIN f : f[i] = f[j] => i = j}

\* the value threaded through a step whose loops over sets run in order so
CurIn(so) == [Cur EXCEPT !.set_order = so]

(***************************************************************************)
(* dag/state_machine.py                                                    *)
(***************************************************************************)
VALID_TRANSITIONS ==
    [s \in NodeStatus |->
        CASE s = PENDING -> {READY, SKIPPED}
          [] s = READY   -> {RUNNING, SKIPPED}
          [] s = RUNNING -> {COMPLETED, FAILED}
          [] s = FAILED  -> {ROLLED_BACK, SKIPPED}
          [] OTHER       -> {}]

\* can_transition as the module docstring draws it: SKIPPED from RUNNING too
CanTransitionAsDrawn(status, new_status) ==
    \/ new_status \in VALID_TRANSITIONS[status]
    \/ status = RUNNING /\ new_status = SKIPPED

\* NodeStateMachine.can_transition
CanTransition(status, new_status) == new_status \in VALID_TRANSITIONS[status]

\* what the observer of a state machine does when it is called
ObserverOutcomes == {"returns", "raises"}

\* self._on_transition(node.id, old_status, new_status): the observer is
\* called with the transition and returns or raises
OnTransition(G, n, old_status, new_status) ==
    [G EXCEPT !.events = Append(@, <<n, old_status, new_status>>),
              !.err = IF G.observer = "raises" THEN "ObserverError" ELSE @]

\* a transition that calls the observer outside a try block
TransitionUnguarded(G, n, new_status) ==
    IF G.err # NoErr THEN G
    ELSE IF ~CanTransition(G.nodes[n].status, new_status)
         THEN [G EXCEPT !.err = "InvalidTransitionError"]
         ELSE LET old_status == G.nodes[n].status
                  G1 == [G EXCEPT !.nodes[n].status = new_status,
                                  !.writes = Append(@, [id |-> n, old |-> old_status,
                                                        new |-> new_status, sm |-> TRUE])]
              IN  OnTransition(G1, n, old_status, new_status)

\* NodeStateMachine.transition; a step that has raised does nothing more.
\* What the observer raises is caught and dropped
Transition(G, n, new_status) ==
    IF G.err # NoErr THEN G
    ELSE IF ~CanTransition(G.nodes[n].status, new_status)
         THEN [G EXCEPT !.err = "InvalidTransitionError"]
         ELSE LET old_status == G.nodes[n].status
                  G1 == [G EXCEPT !.nodes[n].status = new_status,
                                  !.writes = Append(@, [id |-> n, old |-> old_status,
                                                        new |-> new_status, sm |-> TRUE])]
                  G2 == OnTransition(G1, n, old_status, new_status)
              IN  IF G2.err = "ObserverError" THEN [G2 EXCEPT !.err = NoErr] ELSE G2

\* a direct assignment node.status = new_status
SetStatus(G, n, new_status) ==
    IF G.err # NoErr THEN G
    ELSE [G EXCEPT !.nodes[n].status = new_status,
                   !.writes = Append(@, [id |-> n, old |-> G.nodes[n].status,
                                         new |-> new_status, sm |-> FALSE])]

(***************************************************************************)
(* dag/graph.py: queries                                                   *)
(***************************************************************************)
\* get_dependency_ids without the filter on the edge type
GetDependencyIdsAnyType(G, n) ==
    Sources(SelectSeq(G.edges, LAMBDA e : e.target = n))

\* TaskDAG.get_dependency_ids
GetDependencyIds(G, n) ==
    Sources(SelectSeq(G.edges, LAMBDA e : e.target = n /\ e.edge_type = DEPENDENCY))

\* TaskDAG.get_conditional_edges
GetConditionalEdges(G, n) ==
    SelectSeq(G.edges, LAMBDA e : e.source = n /\ e.edge_type = CONDITIONAL)

\* TaskDAG.get_rollback_targets
GetRollbackTargets(G, n) ==
    Targets(SelectSeq(G.edges, LAMBDA e : e.source = n /\ e.edge_type = ROLLBACK))

\* all(self.nodes[d].status == COMPLETED for d in deps): the scan stops at
\* the first dependency that is not COMPLETED, and self.nodes[d] raises
\* KeyError when it reaches an id that is not in nodes
RECURSIVE AllCompleted(_, _)
AllCompleted(G, deps) ==
    IF deps = <<>> THEN "True"
    ELSE IF Head(deps) \notin DOMAIN G.nodes THEN "KeyError"
    ELSE IF G.nodes[Head(deps)].status # COMPLETED THEN "False"
    ELSE AllCompleted(G, Tail(deps))

DepsCompleted(G, n) == AllCompleted(G, GetDependencyIds(G, n)) = "True"

DepsRaise(G, n) == AllCompleted(G, GetDependencyIds(G, n)) = "KeyError"

\* TaskDAG.get_ready_nodes
GetReadyNodes(G) ==
    SelectSeq(G.order, LAMBDA n : /\ G.nodes[n].status \in {PENDING, READY}
                                  /\ DepsCompleted(G, n))

\* get_ready_nodes raises KeyError instead of returning
GetReadyNodesRaises(G) ==
    \E n \in Range(G.order) : G.nodes[n].status \in {PENDING, READY} /\ DepsRaise(G, n)

\* the successors of a node over edges of any type
DepChildrenAnyType(G, n) ==
    Targets(SelectSeq(G.edges, LAMBDA e : e.source = n))

\* the DEPENDENCY successors of a node, in edge order
DepChildren(G, n) ==
    Targets(SelectSeq(G.edges, LAMBDA e : e.source = n /\ e.edge_type = DEPENDENCY))

\* the while loop of TaskDAG.get_downstream
RECURSIVE DownstreamLoop(_, _, _)
DownstreamLoop(G, queue, visited) ==
    IF queue = <<>> THEN visited
    ELSE LET nid == Head(queue)
         IN  IF nid \in visited
             THEN DownstreamLoop(G, Tail(queue), visited)
             ELSE DownstreamLoop(G, Tail(queue) \o DepChildren(G, nid),
                                 visited \cup {nid})

\* TaskDAG.get_downstream (the returned list, as a set)
GetDownstream(G, n) == DownstreamLoop(G, DepChildren(G, n), {})

\* in_degree that counts the edges of every type
InDegreeAnyType(G) ==
    [n \in DOMAIN G.nodes |->
        Cardinality({i \in 1..Len(G.edges) : G.edges[i].target = n})]

\* topological_sort: in_degree after the loop over the edges
InDegree(G) ==
    [n \in DOMAIN G.nodes |->
        Cardinality({i \in 1..Len(G.edges) :
                        G.edges[i].edge_type = DEPENDENCY /\ G.edges[i].target = n})]

\* topological_sort: the inner loop over the edges for the popped id nid,
\* from the edge at position i on; it decrements the in-degree of the
\* DEPENDENCY targets and queues those that reach 0
RECURSIVE RelaxEdges(_, _, _, _)
RelaxEdges(G, nid, i, S) ==
    IF i > Len(G.edges) THEN S
    ELSE LET e == G.edges[i]
         IN  IF e.source = nid /\ e.edge_type = DEPENDENCY
             THEN LET deg == S.in_degree[e.target] - 1
                  IN  RelaxEdges(G, nid, i + 1,
                          [in_degree |-> [S.in_degree EXCEPT ![e.target] = deg],
                           queue |-> IF deg = 0 THEN Append(S.queue, e.target) ELSE S.queue])
             ELSE RelaxEdges(G, nid, i + 1, S)

\* topological_sort: the while loop over the queue
RECURSIVE KahnLoop(_, _, _)
KahnLoop(G, S, result) ==
    IF S.queue = <<>> THEN result
    ELSE LET nid == Head(S.queue)
         IN  KahnLoop(G,
                      RelaxEdges(G, nid, 1, [S EXCEPT !.queue = Tail(S.queue)]),
                      Append(result, nid))

\* TaskDAG.topological_sort
TopologicalSort(G) ==
    KahnLoop(G,
             [in_degree |-> InDegree(G),
              queue |-> SelectSeq(G.order, LAMBDA n : InDegree(G)[n] = 0)],
             <<>>)

\* the orders a step may meet: the order only shows when a call of
\* mark_subtree_skipped on one of roots meets an id that is not in nodes and
\* raises, every other run of its loop ends in the same graph
IterationOrders(roots) ==
    LET visited == UNION {GetDownstream(Cur, n) : n \in roots}
    IN  IF visited \subseteq DOMAIN nodes
        THEN {SortedSeq(DOMAIN nodes \cup {Absent})}
        ELSE {f \o SortedSeq((DOMAIN nodes \cup {Absent}) \ visited) :
                  f \in SetOrders(visited)}

\* TaskDAG.is_complete
IsComplete(G) ==
    \A n \in Range(G.order) : G.nodes[n].status \in {COMPLETED, SKIPPED, ROLLED_BACK}

(***************************************************************************)
(* dag/graph.py: state mutations                                           *)
(***************************************************************************)
\* the loop of mark_subtree_skipped skipping every non-terminal node
RECURSIVE MarkSkippedLoopNonTerminal(_, _)
MarkSkippedLoopNonTerminal(G, todo) ==
    IF todo = <<>> THEN G
    ELSE LET n == Head(todo)
         IN  MarkSkippedLoopNonTerminal(
                 IF G.nodes[n].status \in {PENDING, READY, RUNNING, FAILED}
                 THEN SetStatus(G, n, SKIPPED) ELSE G,
                 Tail(todo))

\* the loop of mark_subtree_skipped; self.nodes[nid] raises KeyError for an
\* id that is not in nodes
RECURSIVE MarkSkippedLoop(_, _)
MarkSkippedLoop(G, todo) ==
    IF todo = <<>> THEN G
    ELSE LET n == Head(todo)
         IN  IF n \notin DOMAIN G.nodes THEN [G EXCEPT !.err = "KeyError"]
             ELSE MarkSkippedLoop(IF G.nodes[n].status \in {PENDING, READY}
                                  THEN SetStatus(G, n, SKIPPED) ELSE G,
                                  Tail(todo))

\* list(visited): the members of the set in the order a loop over it meets
\* them
Listed(G, S) == SelectSeq(G.set_order, LAMBDA x : x \in S)

\* TaskDAG.mark_subtree_skipped
MarkSubtreeSkipped(G, n) ==
    IF G.err # NoErr THEN G
    ELSE MarkSkippedLoop(G, Listed(G, GetDownstream(G, n)))

\* a refresh for which a READY dependency counts as a COMPLETED one
RECURSIVE RefreshLoopReadyDeps(_, _)
RefreshLoopReadyDeps(G, todo) ==
    IF todo = <<>> THEN G
    ELSE LET n == Head(todo)
         IN  RefreshLoopReadyDeps(
                 IF /\ G.nodes[n].status = PENDING
                    /\ \A d \in Range(GetDependencyIds(G, n)) :
                          G.nodes[d].status \in {READY, COMPLETED}
                 THEN SetStatus(G, n, READY) ELSE G,
                 Tail(todo))

\* the loop of refresh_ready_states over self.nodes.values()
RECURSIVE RefreshLoop(_, _)
RefreshLoop(G, todo) ==
    IF todo = <<>> THEN G
    ELSE LET n == Head(todo)
         IN  IF G.nodes[n].status = PENDING /\ DepsRaise(G, n)
             THEN [G EXCEPT !.err = "KeyError"]
             ELSE RefreshLoop(IF G.nodes[n].status = PENDING /\ DepsCompleted(G, n)
                              THEN SetStatus(G, n, READY) ELSE G,
                              Tail(todo))

\* TaskDAG.refresh_ready_states
RefreshReadyStates(G) ==
    IF G.err # NoErr THEN G ELSE RefreshLoop(G, G.order)

(***************************************************************************)
(* dag/graph.py: dynamic graph mutation.  Each operator gives the graph    *)
(* after the call and the value returned.                                  *)
(***************************************************************************)
\* TaskDAG.add_dynamic_node that replaces a node with the same id
AddDynamicNodeOver(G, n, node) ==
    [G |-> [G EXCEPT !.nodes = DictSet(@, n, node),
                     !.order = IF n \in DOMAIN G.nodes THEN @ ELSE Append(@, n)],
     r |-> TRUE]

\* TaskDAG.add_dynamic_node(node), node.id = n
AddDynamicNode(G, n, node) ==
    IF n \in DOMAIN G.nodes THEN [G |-> G, r |-> FALSE]
    ELSE [G |-> [G EXCEPT !.nodes = DictSet(@, n, node), !.order = Append(@, n)],
          r |-> TRUE]

\* TaskDAG.add_dynamic_edge that does not look for an existing edge
AddDynamicEdgeAgain(G, edge) ==
    IF edge.source \notin DOMAIN G.nodes THEN [G |-> G, r |-> FALSE]
    ELSE IF edge.target \notin DOMAIN G.nodes THEN [G |-> G, r |-> FALSE]
    ELSE [G |-> [G EXCEPT !.edges = Append(@, edge)], r |-> TRUE]

\* TaskDAG.add_dynamic_edge(edge)
AddDynamicEdge(G, edge) ==
    IF edge.source \notin DOMAIN G.nodes THEN [G |-> G, r |-> FALSE]
    ELSE IF edge.target \notin DOMAIN G.nodes THEN [G |-> G, r |-> FALSE]
    ELSE IF \E i \in 1..Len(G.edges) :
               <<G.edges[i].source, G.edges[i].target, G.edges[i].edge_type>>
                  = <<edge.source, edge.target, edge.edge_type>>
         THEN [G |-> G, r |-> FALSE]
    ELSE [G |-> [G EXCEPT !.edges = Append(@, edge)], r |-> TRUE]

\* TaskDAG.remove_pending_node that removes a node in any status
RemoveAnyNode(G, n) ==
    IF n \notin DOMAIN G.nodes THEN [G |-> G, r |-> FALSE]
    ELSE [G |-> [G EXCEPT
                   !.nodes = [m \in DOMAIN @ \ {n} |-> @[m]],
                   !.order = SelectSeq(@, LAMBDA m : m # n),
                   !.edges = SelectSeq(@, LAMBDA e : e.source # n /\ e.target # n),
                   !.node_results = [m \in DOMAIN @ \ {n} |-> @[m]]],
          r |-> TRUE]

\* TaskDAG.remove_pending_node(node_id)
RemovePendingNode(G, n) ==
    IF n \notin DOMAIN G.nodes THEN [G |-> G, r |-> FALSE]
    ELSE IF G.nodes[n].status # PENDING THEN [G |-> G, r |-> FALSE]
    ELSE [G |-> [G EXCEPT
                   !.nodes = [m \in DOMAIN @ \ {n} |-> @[m]],
                   !.order = SelectSeq(@, LAMBDA m : m # n),
                   !.edges = SelectSeq(@, LAMBDA e : e.source # n /\ e.target # n),
                   !.node_results = [m \in DOMAIN @ \ {n} |-> @[m]]],
          r |-> TRUE]

\* TaskDAG.modify_node that accepts a node in any status
ModifyNodeAnyStatus(G, n, description, exit_criteria_desc) ==
    IF n \notin DOMAIN G.nodes THEN [G |-> G, r |-> FALSE]
    ELSE LET G1 == IF description # <<>>
                   THEN [G EXCEPT !.nodes[n].description = description[1]] ELSE G
             G2 == IF exit_criteria_desc # <<>>
                   THEN [G1 EXCEPT !.nodes[n].exit_criteria.description = exit_criteria_desc[1],
                                   !.nodes[n].exit_criteria.validation_prompt = TRUE]
                   ELSE G1
         IN  [G |-> G2, r |-> TRUE]

\* TaskDAG.modify_node(node_id, description, exit_criteria_desc); an
\* argument that is None is <<>>, a text t is <<t>>
ModifyNode(G, n, description, exit_criteria_desc) ==
    IF n \notin DOMAIN G.nodes THEN [G |-> G, r |-> FALSE]
    ELSE IF G.nodes[n].status \notin {PENDING, READY} THEN [G |-> G, r |-> FALSE]
    ELSE LET G1 == IF description # <<>>
                   THEN [G EXCEPT !.nodes[n].description = description[1]] ELSE G
             G2 == IF exit_criteria_desc # <<>>
                   THEN [G1 EXCEPT !.nodes[n].exit_criteria.description = exit_criteria_desc[1],
                                   !.nodes[n].exit_criteria.validation_prompt = TRUE]
                   ELSE G1
         IN  [G |-> G2, r |-> TRUE]

\* model_dump of a TaskNode: a dict of its fields, the exit criteria dumped
\* in turn
NodeDump(node) ==
    [node_type |-> node.node_type, description |-> node.description,
     exit_criteria |-> [description |-> node.exit_criteria.description,
                        validation_prompt |-> node.exit_criteria.validation_prompt,
                        required |-> node.exit_criteria.required],
     status |-> node.status, result |-> node.result, parent_id |-> node.parent_id]

\* model_dump of a TaskEdge
EdgeDump(e) ==
    [source |-> e.source, target |-> e.target, edge_type |-> e.edge_type,
     condition |-> e.condition]

\* TaskDAG.to_dict: "order" is the key order of the dict under "nodes"
ToDict(G) ==
    [task |-> G.task, context |-> G.context, node_results |-> G.node_results,
     order |-> G.order,
     nodes |-> [n \in DOMAIN G.nodes |-> NodeDump(G.nodes[n])],
     edges |-> [i \in DOMAIN G.edges |-> EdgeDump(G.edges[i])]]

\* TaskNode(**ndata): the fields the caller gives, the defaults of the
\* schema for the others
NodeFromDict(ndata) ==
    LET Get(k, default) == IF k \in DOMAIN ndata THEN ndata[k] ELSE default
        crit == ndata.exit_criteria
    IN  [node_type |-> ndata.node_type, description |-> ndata.description,
         exit_criteria |->
             [description |-> crit.description,
              validation_prompt |-> IF "validation_prompt" \in DOMAIN crit
                                    THEN crit.validation_prompt ELSE FALSE,
              required |-> IF "required" \in DOMAIN crit THEN crit.required ELSE TRUE],
         status |-> Get("status", PENDING), result |-> Get("result", <<>>),
         parent_id |-> Get("parent_id", <<>>)]

\* TaskEdge(**edata)
EdgeFromDict(edata) ==
    LET Get(k, default) == IF k \in DOMAIN edata THEN edata[k] ELSE default
    IN  [source |-> edata.source, target |-> edata.target,
         edge_type |-> Get("edge_type", DEPENDENCY), condition |-> Get("condition", <<>>)]

\* a from_dict that leaves the stored results of the new graph empty
FromDictFreshResults(data) ==
    [task |-> data.task,
     context |-> IF "context" \in DOMAIN data THEN data.context ELSE "",
     order |-> data.order,
     nodes |-> [n \in DOMAIN data.nodes |-> NodeFromDict(data.nodes[n])],
     edges |-> [i \in DOMAIN data.edges |-> EdgeFromDict(data.edges[i])],
     node_results |-> <<>>,
     checkpoints |-> <<>>]

\* TaskDAG.from_dict: a new graph, without checkpoints, of the nodes and
\* edges rebuilt from their dicts, then given the stored results
FromDict(data) ==
    [task |-> data.task,
     context |-> IF "context" \in DOMAIN data THEN data.context ELSE "",
     order |-> data.order,
     nodes |-> [n \in DOMAIN data.nodes |-> NodeFromDict(data.nodes[n])],
     edges |-> [i \in DOMAIN data.edges |-> EdgeFromDict(data.edges[i])],
     node_results |-> IF "node_results" \in DOMAIN data THEN data.node_results ELSE <<>>,
     checkpoints |-> <<>>]

(***************************************************************************)
(* dag/executor.py                                                         *)
(***************************************************************************)
\* a _run_node that goes to RUNNING without the step through READY
RunNodeStartNoPromotion(G, n) ==
    LET G2 == Transition(G, n, RUNNING)
    IN  IF G2.err # NoErr THEN G2
        ELSE [G2 EXCEPT !.runner_calls = Append(@, n)]

\* _run_node up to its await: the transitions to RUNNING, then the call of
\* ExecutorAgent.execute_node
RunNodeStart(G, n) ==
    LET G1 == IF G.err = NoErr /\ G.nodes[n].status = PENDING
              THEN Transition(G, n, READY) ELSE G
        G2 == Transition(G1, n, RUNNING)
    IN  IF G2.err # NoErr THEN G2
        ELSE [G2 EXCEPT !.runner_calls = Append(@, n)]

\* merge_result storing the output under every key of the store
MergeResultReplacing(G, n, out) ==
    [G EXCEPT !.node_results = [k \in DOMAIN @ \cup {n} |-> out]]

\* DAGState.merge_result
MergeResult(G, n, out) == [G EXCEPT !.node_results = DictSet(@, n, out)]

\* _check_exit_criteria that takes the success of the run for the answer
CheckExitCriteriaUnasked(node, result, verdict) ==
    IF ~node.exit_criteria.required THEN TRUE
    ELSE result.success

\* _check_exit_criteria; verdict is what the Reflector answers when asked
CheckExitCriteria(node, result, verdict) ==
    IF ~node.exit_criteria.required THEN TRUE
    ELSE IF ~node.exit_criteria.validation_prompt THEN result.success
    ELSE verdict

\* _evaluate_condition
EvaluateCondition(edge, G) ==
    IF edge.condition = <<>> \/ edge.condition[1] = <<>> THEN TRUE
    ELSE LET source_result == IF edge.source \in DOMAIN G.node_results
                              THEN G.node_results[edge.source] ELSE <<>>
         IN  Contains(Lower(edge.condition[1]), Lower(source_result))

\* the loop of _process_conditions without the test that the target is
\* still PENDING
RECURSIVE ConditionEdgesLoopAnyStatus(_, _)
ConditionEdgesLoopAnyStatus(G, es) ==
    IF es = <<>> THEN G
    ELSE LET edge == Head(es)
         IN  IF \/ edge.target \notin DOMAIN G.nodes
                \/ EvaluateCondition(edge, G)
             THEN ConditionEdgesLoopAnyStatus(G, Tail(es))
             ELSE ConditionEdgesLoopAnyStatus(
                      MarkSubtreeSkipped(SetStatus(G, edge.target, SKIPPED), edge.target),
                      Tail(es))

RECURSIVE ConditionEdgesLoop(_, _)
ConditionEdgesLoop(G, es) ==
    IF es = <<>> THEN G
    ELSE LET edge == Head(es)
         IN  IF \/ edge.target \notin DOMAIN G.nodes
                \/ G.nodes[edge.target].status # PENDING
                \/ EvaluateCondition(edge, G)
             THEN ConditionEdgesLoop(G, Tail(es))
             ELSE ConditionEdgesLoop(
                      MarkSubtreeSkipped(SetStatus(G, edge.target, SKIPPED), edge.target),
                      Tail(es))

RECURSIVE ProcessConditionsLoop(_, _)
ProcessConditionsLoop(G, todo) ==
    IF todo = <<>> THEN G
    ELSE LET n == Head(todo)
         IN  ProcessConditionsLoop(
                 IF G.nodes[n].status # COMPLETED THEN G
                 ELSE ConditionEdgesLoop(G, GetConditionalEdges(G, n)),
                 Tail(todo))

\* _process_conditions
ProcessConditions(G) ==
    IF G.err # NoErr THEN G ELSE ProcessConditionsLoop(G, G.order)

Terminal == {COMPLETED, SKIPPED, ROLLED_BACK}

\* one iteration of the loop of _complete_structural_nodes
CompleteStructuralNode(G, n) ==
    LET children == {c \in Range(G.order) : G.nodes[c].parent_id = <<n>>}
    IN  IF \/ G.nodes[n].node_type = ACTION_NODE
           \/ G.nodes[n].status \in Terminal
           \/ children = {}
           \/ \E c \in children : G.nodes[c].status \notin Terminal
        THEN G
        ELSE IF \E c \in children : G.nodes[c].status = COMPLETED
             THEN LET G1 == IF G.nodes[n].status = PENDING
                            THEN Transition(G, n, READY) ELSE G
                      G2 == IF G1.nodes[n].status = READY
                            THEN Transition(G1, n, RUNNING) ELSE G1
                  IN  IF G2.nodes[n].status = RUNNING
                      THEN Transition(G2, n, COMPLETED) ELSE G2
             ELSE IF G.nodes[n].status \in {PENDING, READY}
                  THEN SetStatus(G, n, SKIPPED) ELSE G

RECURSIVE CompleteStructuralLoop(_, _)
CompleteStructuralLoop(G, todo) ==
    IF todo = <<>> \/ G.err # NoErr THEN G
    ELSE CompleteStructuralLoop(CompleteStructuralNode(G, Head(todo)), Tail(todo))

\* _complete_structural_nodes
CompleteStructuralNodes(G) == CompleteStructuralLoop(G, G.order)

\* execute(): the loop over a round whose ready nodes are all structural
RECURSIVE PromoteStructuralLoop(_, _)
PromoteStructuralLoop(G, todo) ==
    IF todo = <<>> \/ G.err # NoErr THEN G
    ELSE LET n == Head(todo)
             G1 == IF G.nodes[n].status = PENDING THEN Transition(G, n, READY) ELSE G
         IN  PromoteStructuralLoop(
                 Transition(Transition(G1, n, RUNNING), n, COMPLETED), Tail(todo))

\* "\n\n".join(parts)
RECURSIVE Join(_)
Join(parts) ==
    IF parts = <<>> THEN <<>>
    ELSE IF Len(parts) = 1 THEN parts[1]
    ELSE parts[1] \o <<"\n", "\n">> \o Join(Tail(parts))

NothingCompleted == <<"No action nodes completed successfully.">>

\* _compile_output
CompileOutput(G) ==
    LET done  == SelectSeq(G.order, LAMBDA n : /\ G.nodes[n].node_type = ACTION_NODE
                                               /\ G.nodes[n].status = COMPLETED
                                               /\ G.nodes[n].result # <<>>
                                               /\ G.nodes[n].result[1] # <<>>)
        parts == [i \in 1..Len(done) |-> G.nodes[done[i]].result[1]]
    IN  IF parts = <<>> THEN NothingCompleted ELSE Join(parts)

\* a choice of rollback targets that also takes the READY ones
RECURSIVE NextPendingOrReadyTarget(_, _, _)
NextPendingOrReadyTarget(G, targets, j) ==
    IF j > Len(targets) THEN 0
    ELSE IF targets[j] \in DOMAIN G.nodes /\ G.nodes[targets[j]].status \in {PENDING, READY}
         THEN j
         ELSE NextPendingOrReadyTarget(G, targets, j + 1)

\* the first position k >= j of targets whose node exists and is PENDING, or 0
RECURSIVE NextPendingTarget(_, _, _)
NextPendingTarget(G, targets, j) ==
    IF j > Len(targets) THEN 0
    ELSE IF targets[j] \in DOMAIN G.nodes /\ G.nodes[targets[j]].status = PENDING
         THEN j
         ELSE NextPendingTarget(G, targets, j + 1)

\* _handle_failure without its closing dag.mark_subtree_skipped(node.id)
HandleFailureNoCascade(G, node, j) ==
    LET targets == GetRollbackTargets(G, node)
        k == NextPendingTarget(G, targets, j)
    IN  IF G.err # NoErr THEN [G |-> G, rb_idx |-> 0]
        ELSE IF targets = <<>>
             THEN [G |-> Transition(G, node, SKIPPED), rb_idx |-> 0]
        ELSE IF k = 0
             THEN [G |-> Transition(G, node, ROLLED_BACK), rb_idx |-> 0]
        ELSE LET G1 == RunNodeStart(G, targets[k])
             IN  [G |-> G1, rb_idx |-> IF G1.err = NoErr THEN k ELSE 0]

\* a _handle_failure that skips the downstream subtree before it runs the
\* rollback targets
HandleFailureCascadeFirst(G, node, j) ==
    LET G0      == IF j = 1 /\ G.err = NoErr THEN MarkSubtreeSkipped(G, node) ELSE G
        targets == GetRollbackTargets(G0, node)
        k       == NextPendingTarget(G0, targets, j)
    IN  IF G0.err # NoErr THEN [G |-> G0, rb_idx |-> 0]
        ELSE IF targets = <<>>
             THEN [G |-> Transition(G0, node, SKIPPED), rb_idx |-> 0]
        ELSE IF k = 0
             THEN [G |-> Transition(G0, node, ROLLED_BACK), rb_idx |-> 0]
        ELSE LET G1 == RunNodeStart(G0, targets[k])
             IN  [G |-> G1, rb_idx |-> IF G1.err = NoErr THEN k ELSE 0]

\* a _handle_failure that hands every rollback target to the runner,
\* whatever its status
HandleFailureRunsEveryTarget(G, node, j) ==
    LET targets == GetRollbackTargets(G, node)
    IN  IF G.err # NoErr THEN [G |-> G, rb_idx |-> 0]
        ELSE IF targets = <<>>
             THEN [G |-> MarkSubtreeSkipped(Transition(G, node, SKIPPED), node),
                   rb_idx |-> 0]
        ELSE IF j > Len(targets)
             THEN [G |-> MarkSubtreeSkipped(Transition(G, node, ROLLED_BACK), node),
                   rb_idx |-> 0]
        ELSE [G |-> [G EXCEPT !.runner_calls = Append(@, targets[j])], rb_idx |-> j]

\* _handle_failure from position j of rollback_targets up to its next await
\* (rb_idx > 0: the run of that rollback target is awaited) or to its end
HandleFailure(G, node, j) ==
    LET targets == GetRollbackTargets(G, node)
        k == NextPendingTarget(G, targets, j)
    IN  IF G.err # NoErr THEN [G |-> G, rb_idx |-> 0]
        ELSE IF targets = <<>>
             THEN [G |-> MarkSubtreeSkipped(Transition(G, node, SKIPPED), node),
                   rb_idx |-> 0]
        ELSE IF k = 0
             THEN [G |-> MarkSubtreeSkipped(Transition(G, node, ROLLED_BACK), node),
                   rb_idx |-> 0]
        ELSE LET G1 == RunNodeStart(G, targets[k])
             IN  [G |-> G1, rb_idx |-> IF G1.err = NoErr THEN k ELSE 0]


(***************************************************************************)
(* Initial graphs: what the TaskDAG constructor is given                   *)
(***************************************************************************)
\* the subsets of S with at most k elements
RECURSIVE UpTo(_, _)
UpTo(S, k) ==
    IF k = 0 THEN {{}}
    ELSE LET R == UpTo(S, k - 1)
         IN  R \cup {T \cup {x} : T \in R, x \in S}

TaskEdge(s, t, ty, c) == [source |-> s, target |-> t, edge_type |-> ty, condition |-> c]

\* the edges an initial graph may have: any type between any two nodes; a
\* CONDITIONAL edge carries the keyword or no condition
EdgeCandidates ==
    LET pairs == {p \in NodeIds \X NodeIds : p[1] # p[2]}
    IN  {TaskEdge(p[1], p[2], ty, <<>>) : p \in pairs, ty \in EdgeType}
        \cup {TaskEdge(p[1], p[2], CONDITIONAL, <<Keyword>>) : p \in pairs}

EdgeKey(e) == <<e.source, e.target, e.edge_type>>

TypeRank(ty) == CASE ty = DEPENDENCY -> 0 [] ty = CONDITIONAL -> 1 [] OTHER -> 2

EdgeRank(e) == (e.source * 10 + e.target) * 3 + TypeRank(e.edge_type)

\* a set of edges with distinct keys as a list, ordered by source, target, type
RECURSIVE EdgeList(_)
EdgeList(S) ==
    IF S = {} THEN <<>>
    ELSE LET m == CHOOSE x \in S : \A y \in S : EdgeRank(x) <= EdgeRank(y)
         IN  <<m>> \o EdgeList(S \ {m})

\* _parse_dag deduplicates on (source, target, edge_type)
EdgeLists ==
    {EdgeList(S) : S \in {T \in UpTo(EdgeCandidates, MaxEdges) :
                              \A e1, e2 \in T : EdgeKey(e1) = EdgeKey(e2) => e1 = e2}}

\* ExitCriteria of node n: the three cases of _check_exit_criteria occur
ExitCriteriaOf(n) ==
    CASE n % 3 = 1 -> [description |-> "planned", required |-> TRUE,  validation_prompt |-> TRUE]
      [] n % 3 = 2 -> [description |-> "planned", required |-> TRUE,  validation_prompt |-> FALSE]
      [] OTHER     -> [description |-> "planned", required |-> FALSE, validation_prompt |-> FALSE]

TaskNode(n, ty, parent, st) ==
    [node_type |-> ty, description |-> "planned", status |-> st, result |-> <<>>,
     parent_id |-> parent, exit_criteria |-> ExitCriteriaOf(n)]

\* the hierarchies of an initial graph: no structure; a goal above actions;
\* goal, subgoal, actions; and a goal inserted after its children
Shapes ==
    LET lo == CHOOSE x \in NodeIds : \A y \in NodeIds : x <= y
        hi == CHOOSE x \in NodeIds : \A y \in NodeIds : x >= y
    IN  { [n \in NodeIds |-> [node_type |-> ACTION_NODE, parent_id |-> <<>>]],
          [n \in NodeIds |-> IF n = lo THEN [node_type |-> GOAL, parent_id |-> <<>>]
                             ELSE [node_type |-> ACTION_NODE, parent_id |-> <<lo>>]],
          [n \in NodeIds |-> IF n = lo THEN [node_type |-> GOAL, parent_id |-> <<>>]
                             ELSE IF n = lo + 1
                                  THEN [node_type |-> SUBGOAL, parent_id |-> <<lo>>]
                                  ELSE [node_type |-> ACTION_NODE, parent_id |-> <<lo + 1>>]],
          [n \in NodeIds |-> IF n = hi THEN [node_type |-> GOAL, parent_id |-> <<>>]
                             ELSE [node_type |-> ACTION_NODE, parent_id |-> <<hi>>]] }

\* the executor's own variables while no execute() is running
Idle ==
    /\ max_parallel = MAX_PARALLEL_NODES
    /\ batch = <<>> /\ started = 0 /\ results = <<>> /\ idx = 0 /\ rb_idx = 0
    /\ output = <<>> /\ runner_calls = <<>> /\ node_failed = {}
    /\ checkpoints = <<>> /\ overtaken = FALSE /\ answer = <<>>

\* TodoList(task)
NewTodoList == [todos |-> <<>>, next_id |-> 1]

\* a ToolRouter and a TodoList that nothing uses
ToolsIdle ==
    /\ router = [threshold |-> TOOL_FAILURE_THRESHOLD, stats |-> <<>>]
    /\ history = <<>>
    /\ todo_list = NewTodoList

IdleUnchanged ==
    UNCHANGED <<max_parallel, batch, started, results, overtaken, idx, rb_idx,
                output, runner_calls, node_failed, checkpoints, answer,
                router, history, todo_list>>

NoCall == [op |-> "none"]

(***************************************************************************)
(* The state machine on its own: transition() called on nodes in any       *)
(* status                                                                  *)
(***************************************************************************)
InitSM ==
    /\ order = SortedSeq(NodeIds)
    /\ \E st \in [NodeIds -> NodeStatus] :
          nodes = [n \in NodeIds |-> TaskNode(n, ACTION_NODE, <<>>, st[n])]
    /\ edges = <<>>
    /\ node_results = <<>>
    /\ pc = "api" /\ Idle
    /\ events = <<>> /\ writes = <<>> /\ err = NoErr
    /\ call = NoCall /\ ret = <<>>
    /\ ToolsIdle

\* sm.transition(dag.nodes[n], new_status) of a state machine whose
\* observer returns or raises
CallTransition(n, new_status, observer) ==
    LET G == Transition([Cur EXCEPT !.observer = observer], n, new_status)
    IN  /\ pc = "api"
        /\ call' = [op |-> "transition", node |-> n, new_status |-> new_status,
                    observer |-> observer]
        /\ nodes' = G.nodes
        /\ events' = G.events
        /\ writes' = G.writes
        /\ err' = G.err
        /\ ret' = <<>>
        /\ UNCHANGED <<order, edges, node_results, pc>>
        /\ IdleUnchanged

NextSM ==
    \E n \in NodeIds, s \in NodeStatus, observer \in ObserverOutcomes :
       CallTransition(n, s, observer)

SpecSM == InitSM /\ [][NextSM]_vars

(***************************************************************************)
(* The graph on its own: the TaskDAG queries and mutations called on a     *)
(* graph whose nodes are in any status                                     *)
(***************************************************************************)
InitGraph ==
    /\ order = SortedSeq(NodeIds)
    /\ \E st \in [NodeIds -> NodeStatus] :
          /\ nodes = [n \in NodeIds |-> TaskNode(n, ACTION_NODE, <<>>, st[n])]
          /\ node_results = [n \in {m \in NodeIds : st[m] \in {COMPLETED, FAILED}} |-> OutYes]
    /\ edges \in {es \in EdgeLists : \A i \in 1..Len(es) : es[i].condition = <<>>}
    /\ pc = "api" /\ Idle
    /\ events = <<>> /\ writes = <<>> /\ err = NoErr
    /\ call = NoCall /\ ret = <<>>
    /\ ToolsIdle

\* the effect of an API call that ran to G and returned r; every graph
\* state is an initial state, so one call per behaviour reaches them all
Returned(c, G, r) ==
    /\ pc = "api"
    /\ call = NoCall
    /\ call' = c
    /\ ret' = r
    /\ order' = G.order
    /\ nodes' = G.nodes
    /\ edges' = G.edges
    /\ node_results' = G.node_results
    /\ events' = G.events
    /\ writes' = G.writes
    /\ err' = G.err
    /\ UNCHANGED pc
    /\ IdleUnchanged

\* dag.get_ready_nodes()
CallGetReadyNodes ==
    Returned([op |-> "get_ready_nodes"], Cur, GetReadyNodes(Cur))

\* dag.get_downstream(n)
CallGetDownstream(n) ==
    Returned([op |-> "get_downstream", node |-> n], Cur, SortedSeq(GetDownstream(Cur, n)))

\* dag.mark_subtree_skipped(n)
CallMarkSubtreeSkipped(n) ==
    Returned([op |-> "mark_subtree_skipped", node |-> n], MarkSubtreeSkipped(Cur, n), <<>>)

\* dag.topological_sort()
CallTopologicalSort ==
    Returned([op |-> "topological_sort"], Cur, TopologicalSort(Cur))

\* dag.refresh_ready_states()
CallRefreshReadyStates ==
    Returned([op |-> "refresh_ready_states"], RefreshReadyStates(Cur), <<>>)

NextGraph ==
    \/ CallGetReadyNodes
    \/ \E n \in NodeIds : CallMarkSubtreeSkipped(n)
    \/ CallRefreshReadyStates

SpecGraph == InitGraph /\ [][NextGraph]_vars

(***************************************************************************)
(* The graph algorithms of TaskDAG that read the edges only, called on a   *)
(* freshly planned graph                                                   *)
(***************************************************************************)
InitTraversal ==
    /\ order = SortedSeq(NodeIds)
    /\ nodes = [n \in NodeIds |-> TaskNode(n, ACTION_NODE, <<>>, PENDING)]
    /\ node_results = <<>>
    /\ edges \in {es \in EdgeLists : \A i \in 1..Len(es) : es[i].condition = <<>>}
    /\ pc = "api" /\ Idle
    /\ events = <<>> /\ writes = <<>> /\ err = NoErr
    /\ call = NoCall /\ ret = <<>>
    /\ ToolsIdle

NextTraversal ==
    \/ \E n \in NodeIds : CallGetDownstream(n)
    \/ CallTopologicalSort

SpecTraversal == InitTraversal /\ [][NextTraversal]_vars

(***************************************************************************)
(* The mutation API on its own: sequences of add_dynamic_node,             *)
(* add_dynamic_edge, remove_pending_node and modify_node calls on a graph  *)
(* as TaskDAG.from_dict rebuilds it                                        *)
(***************************************************************************)
\* the ids the calls name: those of the graph and one that is not in it
MutationIds == {1, 2, 3}

\* the nodes of the initial graph
PresentIds == {1, 2}

\* the edge types the calls add
MutationEdgeTypes == {DEPENDENCY, ROLLBACK}

\* the n-th call of the sequence
Nth(c) == IF c = NoCall THEN 0 ELSE c.nth

InitMutate ==
    /\ order = SortedSeq(PresentIds)
    \* the first node in any status, the others PENDING
    /\ \E st \in NodeStatus :
          nodes = [n \in PresentIds |->
                      TaskNode(n, ACTION_NODE, <<>>, IF n = Head(order) THEN st ELSE PENDING)]
    \* no edge or one edge, between nodes of the graph
    /\ edges \in {es \in EdgeLists :
                     /\ Len(es) <= 1
                     /\ \A i \in 1..Len(es) : /\ es[i].condition = <<>>
                                              /\ es[i].source \in PresentIds
                                              /\ es[i].target \in PresentIds}
    \* data["node_results"]: a result for every node or for none
    /\ node_results \in {<<>>, [n \in PresentIds |-> OutYes]}
    /\ pc = "api" /\ Idle
    /\ events = <<>> /\ writes = <<>> /\ err = NoErr
    /\ call = NoCall /\ ret = <<>>
    /\ ToolsIdle

\* the effect of a call of the mutation op that left the graph R.G and
\* returned R.r
Mutated(op, R) ==
    /\ pc = "api"
    /\ Nth(call) < MaxCalls
    /\ call' = [op |-> op, nth |-> Nth(call) + 1]
    /\ ret' = R.r
    /\ order' = R.G.order
    /\ nodes' = R.G.nodes
    /\ edges' = R.G.edges
    /\ node_results' = R.G.node_results
    /\ events' = R.G.events
    /\ writes' = R.G.writes
    /\ err' = R.G.err
    /\ UNCHANGED pc
    /\ IdleUnchanged

\* dag.add_dynamic_node(TaskNode(id=n, node_type=ACTION, ...))
CallAddDynamicNode(n) ==
    Mutated("add_dynamic_node",
            AddDynamicNode(Cur, n, TaskNode(n, ACTION_NODE, <<>>, PENDING)))

\* dag.add_dynamic_edge(TaskEdge(source=s, target=t, edge_type=ty))
CallAddDynamicEdge(s, t, ty) ==
    Mutated("add_dynamic_edge",
            AddDynamicEdge(Cur, TaskEdge(s, t, ty, <<>>)))

\* dag.remove_pending_node(n)
CallRemovePendingNode(n) ==
    Mutated("remove_pending_node", RemovePendingNode(Cur, n))

\* dag.modify_node(n, description, exit_criteria_desc)
CallModifyNode(n, description, exit_criteria_desc) ==
    Mutated("modify_node",
            ModifyNode(Cur, n, description, exit_criteria_desc))

NextMutate ==
    \/ \E n \in MutationIds : CallAddDynamicNode(n)
    \/ \E s, t \in MutationIds, ty \in MutationEdgeTypes : CallAddDynamicEdge(s, t, ty)
    \/ \E n \in MutationIds : CallRemovePendingNode(n)
    \* with both texts or with neither
    \/ \E n \in MutationIds, d \in {<<>>, <<"adapted">>} : CallModifyNode(n, d, d)

SpecMutate == InitMutate /\ [][NextMutate]_vars

(***************************************************************************)
(* Serialization: from_dict(to_dict(g)) on graphs in any state             *)
(***************************************************************************)
Tasks == {"task", "another task"}

Contexts == {"", "context"}

\* a hierarchy, the first node in any status and with or without a result
\* of its own, at most two edges of any type, stored results for the nodes
\* or for none
InitSerial ==
    /\ order = SortedSeq(NodeIds)
    /\ \E shape \in Shapes, st \in NodeStatus, result \in {<<>>, <<OutYes>>} :
          nodes = [n \in NodeIds |->
                      IF n = Head(order)
                      THEN [TaskNode(n, shape[n].node_type, shape[n].parent_id, st)
                               EXCEPT !.result = result]
                      ELSE TaskNode(n, shape[n].node_type, shape[n].parent_id, PENDING)]
    /\ edges \in {es \in EdgeLists : Len(es) <= 2}
    /\ node_results \in {<<>>, [n \in NodeIds |-> OutYes]}
    /\ pc = "api" /\ Idle
    /\ events = <<>> /\ writes = <<>> /\ err = NoErr
    /\ call = NoCall /\ ret = <<>>
    /\ ToolsIdle

\* TaskDAG.from_dict(dag.to_dict()) of the graph built for a task and a
\* context; ret is the new graph
CallRoundTrip(task, context) ==
    LET G == [Cur EXCEPT !.task = task, !.context = context]
    IN  Returned([op |-> "round_trip", task |-> task, context |-> context],
                 Cur, FromDict(ToDict(G)))

NextSerial == \E task \in Tasks, context \in Contexts : CallRoundTrip(task, context)

SpecSerial == InitSerial /\ [][NextSerial]_vars

(***************************************************************************)
(* agents/planner.py: _merge_dags(old_dag, new_dag, parent_id)             *)
(***************************************************************************)
\* a merge in which a node of the new graph replaces the old node of its id
MergeDagsNewWins(old_dag, new_dag, parent_id) ==
    LET failed_subtree == GetDownstream(old_dag, parent_id) \cup {parent_id}
        kept == {n \in DOMAIN old_dag.nodes :
                    n \notin failed_subtree \/ old_dag.nodes[n].status = COMPLETED}
        removed == failed_subtree \ kept
        added == DOMAIN new_dag.nodes
    IN  [task |-> old_dag.task, context |-> old_dag.context,
         order |-> SelectSeq(old_dag.order, LAMBDA n : n \in kept \ added)
                   \o new_dag.order,
         nodes |-> [n \in kept \cup added |->
                       IF n \in added THEN new_dag.nodes[n] ELSE old_dag.nodes[n]],
         edges |-> SelectSeq(old_dag.edges,
                             LAMBDA e : e.source \notin removed /\ e.target \notin removed)
                   \o new_dag.edges,
         node_results |-> old_dag.node_results,
         checkpoints |-> <<>>]

\* _merge_dags: the old nodes outside the failed subtree and the COMPLETED
\* ones, the old edges between nodes that were not removed, then the nodes
\* of the new graph whose id is not taken and all its edges; the results
\* of the old graph
MergeDags(old_dag, new_dag, parent_id) ==
    LET failed_subtree == GetDownstream(old_dag, parent_id) \cup {parent_id}
        kept == {n \in DOMAIN old_dag.nodes :
                    n \notin failed_subtree \/ old_dag.nodes[n].status = COMPLETED}
        removed == failed_subtree \ kept
        added == DOMAIN new_dag.nodes \ kept
    IN  [task |-> old_dag.task, context |-> old_dag.context,
         order |-> SelectSeq(old_dag.order, LAMBDA n : n \in kept)
                   \o SelectSeq(new_dag.order, LAMBDA n : n \in added),
         nodes |-> [n \in kept \cup added |->
                       IF n \in kept THEN old_dag.nodes[n] ELSE new_dag.nodes[n]],
         edges |-> SelectSeq(old_dag.edges,
                             LAMBDA e : e.source \notin removed /\ e.target \notin removed)
                   \o new_dag.edges,
         node_results |-> old_dag.node_results,
         checkpoints |-> <<>>]

\* the ids of a replanned graph: ids of the old graph and a fresh one
NewDagIds == {2, 3, 4}

\* the graphs _parse_dag may return for a replan: one or two PENDING nodes,
\* without an edge or with one DEPENDENCY edge
NewDags ==
    LET Dag(ids, es) ==
            [order |-> SortedSeq(ids),
             nodes |-> [n \in ids |-> [TaskNode(n, ACTION_NODE, <<>>, PENDING)
                                          EXCEPT !.description = "replanned"]],
             edges |-> es]
    IN  {Dag({n}, <<>>) : n \in NewDagIds}
        \cup {Dag({m, n}, <<>>) : m, n \in NewDagIds}
        \cup {Dag({m, n}, <<TaskEdge(m, n, DEPENDENCY, <<>>)>>) :
                 <<m, n>> \in {p \in NewDagIds \X NewDagIds : p[1] # p[2]}}

\* the old graph: nodes that are PENDING, COMPLETED or FAILED, at most
\* MaxEdges DEPENDENCY or ROLLBACK edges, the results of the nodes that ran
InitMerge ==
    /\ order = SortedSeq(NodeIds)
    /\ \E st \in [NodeIds -> {PENDING, COMPLETED, FAILED}] :
          /\ nodes = [n \in NodeIds |-> TaskNode(n, ACTION_NODE, <<>>, st[n])]
          /\ node_results = [n \in {m \in NodeIds : st[m] \in {COMPLETED, FAILED}} |-> OutYes]
    /\ edges \in {es \in EdgeLists :
                     \A i \in 1..Len(es) : /\ es[i].condition = <<>>
                                              /\ es[i].edge_type \in MutationEdgeTypes}
    /\ pc = "api" /\ Idle
    /\ events = <<>> /\ writes = <<>> /\ err = NoErr
    /\ call = NoCall /\ ret = <<>>
    /\ ToolsIdle

\* PlannerAgent._merge_dags(dag, new_dag, parent_id); ret is the merged graph
CallMergeDags(new_dag, parent_id) ==
    Returned([op |-> "merge_dags", new_dag |-> new_dag, parent_id |-> parent_id],
             Cur, MergeDags(Cur, new_dag, parent_id))

NextMerge == \E new_dag \in NewDags, parent_id \in NodeIds : CallMergeDags(new_dag, parent_id)

SpecMerge == InitMerge /\ [][NextMerge]_vars

(***************************************************************************)
(* tools/router.py: ToolRouter                                             *)
(***************************************************************************)
\* ToolStats()
ToolStats == [calls |-> 0, failures |-> 0, consecutive_failures |-> 0]

\* _get_stats: the router with an entry for (node_id, tool_name), a fresh
\* one if there was none
GetStats(R, node_id, tool_name) ==
    LET s1 == IF node_id \notin DOMAIN R.stats
              THEN DictSet(R.stats, node_id, <<>>) ELSE R.stats
        s2 == IF tool_name \notin DOMAIN s1[node_id]
              THEN DictSet(s1, node_id, DictSet(s1[node_id], tool_name, ToolStats))
              ELSE s1
    IN  [R EXCEPT !.stats = s2]

\* a record_success that leaves consecutive_failures as it is
RecordSuccessNoReset(R, node_id, tool_name) ==
    LET R1 == GetStats(R, node_id, tool_name)
    IN  [R1 EXCEPT !.stats[node_id][tool_name].calls = @ + 1]

\* ToolRouter.record_success
RecordSuccess(R, node_id, tool_name) ==
    LET R1 == GetStats(R, node_id, tool_name)
    IN  [R1 EXCEPT !.stats[node_id][tool_name].calls = @ + 1,
                   !.stats[node_id][tool_name].consecutive_failures = 0]

\* ToolRouter.record_failure
RecordFailure(R, node_id, tool_name) ==
    LET R1 == GetStats(R, node_id, tool_name)
    IN  [R1 EXCEPT !.stats[node_id][tool_name].calls = @ + 1,
                   !.stats[node_id][tool_name].failures = @ + 1,
                   !.stats[node_id][tool_name].consecutive_failures = @ + 1]

\* ToolRouter.should_suggest_alternative: the router after the call and
\* the answer
ShouldSuggestAlternative(R, node_id, tool_name) ==
    LET R1 == GetStats(R, node_id, tool_name)
    IN  [R |-> R1,
         r |-> R1.stats[node_id][tool_name].consecutive_failures >= R1.threshold]

RouterNodes == {"node_1", "node_2"}

RouterTools == {"web_search", "execute_python"}

\* the failure_threshold argument: none, or the one of test_failure_threshold
ThresholdArgs == {0, 3}

\* ToolRouter(available_tools, failure_threshold):
\* self._threshold = failure_threshold or config.TOOL_FAILURE_THRESHOLD
InitRouter ==
    /\ order = SortedSeq(NodeIds)
    /\ nodes = [n \in NodeIds |-> TaskNode(n, ACTION_NODE, <<>>, PENDING)]
    /\ edges = <<>>
    /\ node_results = <<>>
    /\ pc = "api" /\ Idle
    /\ events = <<>> /\ writes = <<>> /\ err = NoErr
    /\ call = NoCall /\ ret = <<>>
    /\ \E arg \in ThresholdArgs :
          router = [threshold |-> IF arg = 0 THEN TOOL_FAILURE_THRESHOLD ELSE arg,
                    stats |-> <<>>]
    /\ history = <<>>
    /\ todo_list = NewTodoList

\* what a call on the router leaves alone
EngineUnchanged ==
    UNCHANGED <<order, nodes, edges, node_results, max_parallel, pc, batch, started,
                results, overtaken, idx, rb_idx, output, events, writes,
                runner_calls, node_failed, checkpoints, answer, err>>

\* router.record_success(node_id, tool_name)
CallRecordSuccess(node_id, tool_name) ==
    /\ Len(history) < MaxRecorded
    /\ router' = RecordSuccess(router, node_id, tool_name)
    /\ call' = [op |-> "record_success", node |-> node_id, tool |-> tool_name]
    /\ history' = Append(history, call')
    /\ ret' = <<>>
    /\ EngineUnchanged /\ UNCHANGED todo_list

\* router.record_failure(node_id, tool_name)
CallRecordFailure(node_id, tool_name) ==
    /\ Len(history) < MaxRecorded
    /\ router' = RecordFailure(router, node_id, tool_name)
    /\ call' = [op |-> "record_failure", node |-> node_id, tool |-> tool_name]
    /\ history' = Append(history, call')
    /\ ret' = <<>>
    /\ EngineUnchanged /\ UNCHANGED todo_list

\* router.should_suggest_alternative(node_id, tool_name)
CallShouldSuggestAlternative(node_id, tool_name) ==
    LET A == ShouldSuggestAlternative(router, node_id, tool_name)
    IN  /\ router' = A.R
        /\ call' = [op |-> "should_suggest_alternative", node |-> node_id,
                    tool |-> tool_name]
        /\ ret' = A.r
        /\ EngineUnchanged /\ UNCHANGED <<history, todo_list>>

NextRouter ==
    \E node_id \in RouterNodes, tool_name \in RouterTools :
       \/ CallRecordSuccess(node_id, tool_name)
       \/ CallRecordFailure(node_id, tool_name)
       \/ CallShouldSuggestAlternative(node_id, tool_name)

SpecRouter == InitRouter /\ [][NextRouter]_vars

(***************************************************************************)
(* schema.py: TodoList                                                     *)
(***************************************************************************)
TODO_PENDING     == "pending"
TODO_IN_PROGRESS == "in_progress"
TODO_COMPLETED   == "completed"
TODO_BLOCKED     == "blocked"
TodoStatus       == {TODO_PENDING, TODO_IN_PROGRESS, TODO_COMPLETED, TODO_BLOCKED}

\* TodoItem(id, description, dependencies)
TodoItem(dependencies) ==
    [status |-> TODO_PENDING, dependencies |-> dependencies, result |-> <<>>]

\* TodoList.add_todo
AddTodo(L, dependencies) ==
    [todos |-> DictSet(L.todos, L.next_id, TodoItem(dependencies)),
     next_id |-> L.next_id + 1]

\* TodoList.mark_completed
MarkCompleted(L, todo_id, result) ==
    IF todo_id \in DOMAIN L.todos
    THEN [L EXCEPT !.todos[todo_id].status = TODO_COMPLETED,
                   !.todos[todo_id].result = << result >>]
    ELSE L

\* TodoList.mark_in_progress
MarkInProgress(L, todo_id) ==
    IF todo_id \in DOMAIN L.todos
    THEN [L EXCEPT !.todos[todo_id].status = TODO_IN_PROGRESS]
    ELSE L

\* deps_completed that passes over the ids that name no todo
TodoDepsCompletedKnown(L, todo) ==
    \A i \in 1..Len(todo.dependencies) :
       LET dep_id == todo.dependencies[i]
       IN  dep_id \in DOMAIN L.todos => L.todos[dep_id].status = TODO_COMPLETED

\* get_ready_todos: deps_completed; the todo of an id that names none is a
\* fresh TodoItem, which is PENDING
TodoDepsCompleted(L, todo) ==
    \A i \in 1..Len(todo.dependencies) :
       LET dep_id == todo.dependencies[i]
           dep == IF dep_id \in DOMAIN L.todos THEN L.todos[dep_id] ELSE TodoItem(<<>>)
       IN  dep.status = TODO_COMPLETED

\* TodoList.get_ready_todos: the ids of the todos returned, in the order of
\* the dict
GetReadyTodos(L) ==
    SelectSeq(SortedSeq(DOMAIN L.todos),
              LAMBDA id : /\ L.todos[id].status = TODO_PENDING
                          /\ TodoDepsCompleted(L, L.todos[id]))

\* the dependencies given to the todo that gets id k: none, the todo before
\* it, the id after it (which names no todo yet), or both
DependencyLists(k) ==
    {<<>>, <<k + 1>>} \cup (IF k > 1 THEN {<<k - 1>>, <<k - 1, k + 1>>} ELSE {})

InitTodo ==
    /\ order = SortedSeq(NodeIds)
    /\ nodes = [n \in NodeIds |-> TaskNode(n, ACTION_NODE, <<>>, PENDING)]
    /\ edges = <<>>
    /\ node_results = <<>>
    /\ pc = "api" /\ Idle
    /\ events = <<>> /\ writes = <<>> /\ err = NoErr
    /\ call = NoCall /\ ret = <<>>
    /\ ToolsIdle

\* the effect of a call on the TodoList that left it L and returned r
TodoCall(c, L, r) ==
    /\ todo_list' = L
    /\ call' = c
    /\ ret' = r
    /\ EngineUnchanged /\ UNCHANGED <<router, history>>

\* todo_list.add_todo(description, dependencies)
CallAddTodo(dependencies) ==
    /\ todo_list.next_id <= MaxTodos
    /\ TodoCall([op |-> "add_todo"], AddTodo(todo_list, dependencies), todo_list.next_id)

\* todo_list.mark_in_progress(todo_id)
CallMarkInProgress(todo_id) ==
    TodoCall([op |-> "mark_in_progress"], MarkInProgress(todo_list, todo_id), <<>>)

\* todo_list.mark_completed(todo_id, result)
CallMarkCompleted(todo_id) ==
    TodoCall([op |-> "mark_completed"], MarkCompleted(todo_list, todo_id, "Result"), <<>>)

\* todo_list.get_ready_todos()
CallGetReadyTodos ==
    TodoCall([op |-> "get_ready_todos"], todo_list, GetReadyTodos(todo_list))

NextTodo ==
    \/ \E dependencies \in DependencyLists(todo_list.next_id) : CallAddTodo(dependencies)
    \/ \E todo_id \in 1..(MaxTodos + 1) : CallMarkInProgress(todo_id)
    \/ \E todo_id \in 1..(MaxTodos + 1) : CallMarkCompleted(todo_id)
    \/ CallGetReadyTodos

SpecTodo == InitTodo /\ [][NextTodo]_vars

(***************************************************************************)
(* agents/planner.py: apply_adaptations                                    *)
(***************************************************************************)
\* PlanAdaptation: an empty string is <<>>, a text t is <<t>>
PlanAdaptation(action, target, text, parent, deps) ==
    [action |-> action, target_node_id |-> target, new_description |-> text,
     new_exit_criteria |-> text, parent_node_id |-> parent, dependencies |-> deps]

\* the TaskNode that the ADD branch builds
DynamicNode(adapt) ==
    [node_type |-> ACTION_NODE,
     description |-> IF adapt.new_description # <<>>
                     THEN adapt.new_description[1] ELSE "dynamic",
     status |-> PENDING, result |-> <<>>,
     parent_id |-> adapt.parent_node_id,
     exit_criteria |-> [description |-> IF adapt.new_exit_criteria # <<>>
                                        THEN adapt.new_exit_criteria[1] ELSE "completed",
                        required |-> TRUE, validation_prompt |-> TRUE]]

\* for dep_id in adapt.dependencies: dag.add_dynamic_edge(...)
RECURSIVE AddDependencyEdges(_, _, _)
AddDependencyEdges(G, target, deps) ==
    IF deps = <<>> THEN G
    ELSE AddDependencyEdges(
             AddDynamicEdge(G, TaskEdge(Head(deps), target, DEPENDENCY, <<>>)).G,
             target, Tail(deps))

\* one iteration of the loop of apply_adaptations: the graph it leaves and
\* whether it appended to changes
ApplyAdaptation(G, adapt) ==
    CASE adapt.action = "remove" ->
           RemovePendingNode(G, adapt.target_node_id)
      [] adapt.action = "modify" ->
           ModifyNode(G, adapt.target_node_id, adapt.new_description, adapt.new_exit_criteria)
      [] adapt.action = "add" ->
           LET A  == AddDynamicNode(G, adapt.target_node_id, DynamicNode(adapt))
               G1 == IF adapt.parent_node_id # <<>>
                     THEN AddDynamicEdge(A.G, TaskEdge(adapt.parent_node_id[1],
                                                       adapt.target_node_id,
                                                       DEPENDENCY, <<>>)).G
                     ELSE A.G
           IN  IF A.r
               THEN [G |-> AddDependencyEdges(G1, adapt.target_node_id, adapt.dependencies),
                     r |-> TRUE]
               ELSE [G |-> G, r |-> FALSE]
      [] OTHER -> [G |-> G, r |-> FALSE]

\* apply_adaptations(dag, adaptations): the graph it leaves and the ids of
\* the instructions it lists in changes
RECURSIVE ApplyAdaptations(_, _)
ApplyAdaptations(G, adaptations) ==
    IF adaptations = <<>> THEN [G |-> G, changes |-> <<>>]
    ELSE LET R    == ApplyAdaptation(G, Head(adaptations))
             rest == ApplyAdaptations(R.G, Tail(adaptations))
         IN  [G |-> rest.G,
              changes |-> IF R.r THEN <<Head(adaptations).target_node_id>> \o rest.changes
                          ELSE rest.changes]

(***************************************************************************)
(* PlannerAgent.apply_adaptations(dag, adaptations) on an initial graph,   *)
(* one instruction of the list after the other                             *)
(***************************************************************************)
\* the instructions of a list: keep, remove and modify of any id, the add
\* of an id that exists, and the add of a new id under no parent or under a
\* node of the initial graph, with or without a dependency
Adaptations ==
    {PlanAdaptation("keep", n, <<>>, <<>>, <<>>) : n \in PresentIds}
    \cup {PlanAdaptation("remove", n, <<>>, <<>>, <<>>) : n \in MutationIds}
    \cup {PlanAdaptation("modify", n, <<"adapted">>, <<>>, <<>>) : n \in MutationIds}
    \cup {PlanAdaptation("add", n, <<>>, <<>>, <<>>) : n \in PresentIds}
    \cup {PlanAdaptation("add", n, t, p, d) :
              n \in MutationIds \ PresentIds, t \in {<<>>, <<"adapted">>},
              p \in {<<>>} \cup {<<m>> : m \in PresentIds},
              d \in {<<>>} \cup {<<m>> : m \in PresentIds}}

\* changes: the ids of the instructions applied so far
ApplyNext(adapt) ==
    LET R == ApplyAdaptation(Cur, adapt)
    IN  /\ pc = "api"
        /\ Nth(call) < MaxCalls
        /\ call' = [op |-> "apply_adaptations", nth |-> Nth(call) + 1, adapt |-> adapt]
        /\ ret' = IF R.r THEN Append(ret, adapt.target_node_id) ELSE ret
        /\ order' = R.G.order
        /\ nodes' = R.G.nodes
        /\ edges' = R.G.edges
        /\ node_results' = R.G.node_results
        /\ events' = R.G.events
        /\ writes' = R.G.writes
        /\ err' = R.G.err
        /\ UNCHANGED pc
        /\ IdleUnchanged

NextAdapt == \E adapt \in Adaptations : ApplyNext(adapt)

SpecAdapt == InitMutate /\ [][NextAdapt]_vars

(***************************************************************************)
(* DAGExecutor.execute(dag) on an initial graph                            *)
(***************************************************************************)
Init ==
    /\ order = SortedSeq(NodeIds)
    /\ \E shape \in Shapes :
          nodes = [n \in NodeIds |->
                      TaskNode(n, shape[n].node_type, shape[n].parent_id, PENDING)]
    /\ edges \in EdgeLists
    /\ node_results = <<>>
    \* self._max_parallel = max_parallel or config.MAX_PARALLEL_NODES
    /\ \E arg \in {0, MaxParallelArg} :
          max_parallel = IF arg = 0 THEN MAX_PARALLEL_NODES ELSE arg
    /\ pc = "init"
    /\ batch = <<>> /\ started = 0 /\ results = <<>> /\ idx = 0 /\ rb_idx = 0
    /\ output = <<>> /\ runner_calls = <<>> /\ node_failed = {}
    /\ checkpoints = <<>> /\ overtaken = FALSE /\ answer = <<>>
    /\ events = <<>> /\ writes = <<>> /\ err = NoErr
    /\ call = NoCall /\ ret = <<>>
    /\ ToolsIdle

\* what a step of execute() that ran to G, and in which the Reflector
\* answered asked, leaves in the graph and the logs; an exception ends
\* execute()
RanAsked(G, next_pc, asked) ==
    /\ order' = G.order
    /\ nodes' = G.nodes
    /\ edges' = G.edges
    /\ node_results' = G.node_results
    /\ runner_calls' = G.runner_calls
    /\ node_failed' = G.node_failed
    /\ events' = G.events
    /\ writes' = G.writes
    /\ err' = G.err
    /\ pc' = IF G.err # NoErr THEN "raised" ELSE next_pc
    /\ answer' = asked
    /\ UNCHANGED <<max_parallel, call, ret, router, history, todo_list>>

\* a step of execute() that does not ask the Reflector
Ran(G, next_pc) == RanAsked(G, next_pc, <<>>)

\* execute(): dag.refresh_ready_states() before the loop
ExecuteStart ==
    /\ pc = "init"
    /\ Ran(RefreshReadyStates(Cur), "loop")
    /\ UNCHANGED <<batch, started, results, overtaken, idx, rb_idx, output, checkpoints>>

\* a loop that is also left once a batch has run
LoopExitAfterFirstBatch ==
    /\ pc = "loop"
    /\ \/ IsComplete(Cur)
       \/ (~GetReadyNodesRaises(Cur) /\ GetReadyNodes(Cur) = <<>>)
       \/ batch # <<>>
    /\ output' = <<CompileOutput(Cur)>>
    /\ Ran(Cur, "done")
    /\ UNCHANGED <<batch, started, results, overtaken, idx, rb_idx, checkpoints>>

\* execute(): the loop ends because the graph is complete or no node is
\* ready, and the compiled output is returned
LoopExit ==
    /\ pc = "loop"
    /\ IsComplete(Cur) \/ (~GetReadyNodesRaises(Cur) /\ GetReadyNodes(Cur) = <<>>)
    /\ output' = <<CompileOutput(Cur)>>
    /\ Ran(Cur, "done")
    /\ UNCHANGED <<batch, started, results, overtaken, idx, rb_idx, checkpoints>>

Actionable(ready) == SelectSeq(ready, LAMBDA n : nodes[n].node_type = ACTION_NODE)

\* execute(): a round whose ready nodes are all structural
StructuralRound ==
    LET ready == GetReadyNodes(Cur)
    IN  /\ pc = "loop"
        /\ ~IsComplete(Cur)
        /\ ~GetReadyNodesRaises(Cur)
        /\ ready # <<>>
        /\ Actionable(ready) = <<>>
        /\ Ran(RefreshReadyStates(PromoteStructuralLoop(Cur, ready)), "loop")
        /\ UNCHANGED <<batch, started, results, overtaken, idx, rb_idx, output, checkpoints>>

\* actionable[:1]: one node a round
SliceOne(s, k) == SubSeq(s, 1, IF 1 < Len(s) THEN 1 ELSE Len(s))

\* actionable[:self._max_parallel]
Slice(s, k) == SubSeq(s, 1, IF k < Len(s) THEN k ELSE Len(s))

\* execute(): a round with ready ACTION nodes forms its batch and awaits
\* the gather of their _run_node tasks
BatchRound ==
    LET ready == GetReadyNodes(Cur)
    IN  /\ pc = "loop"
        /\ ~IsComplete(Cur)
        /\ ~GetReadyNodesRaises(Cur)
        /\ Actionable(ready) # <<>>
        /\ batch' = Slice(Actionable(ready), max_parallel)
        /\ started' = 0
        /\ results' = [i \in 1..Len(batch') |-> <<>>]
        /\ idx' = 0
        /\ overtaken' = FALSE
        /\ Ran(Cur, "gather")
        /\ UNCHANGED <<rb_idx, output, checkpoints>>

\* the next task of the gather begins: _run_node up to its await
StartTask ==
    /\ pc = "gather"
    /\ started < Len(batch)
    /\ started' = started + 1
    /\ Ran(RunNodeStart(Cur, batch[started + 1]), "gather")
    /\ UNCHANGED <<batch, results, overtaken, idx, rb_idx, output, checkpoints>>

StepResult(n, success, out) == [step_id |-> n, success |-> success, output |-> out]

\* a gather that returns as soon as the task in the first position has
FinishTaskFirstReturned(i, success, out) ==
    /\ pc = "gather"
    /\ i \in 1..started
    /\ results[i] = <<>>
    /\ results' = [results EXCEPT ![i] = <<StepResult(batch[i], success, out)>>]
    /\ overtaken' = (overtaken \/ \E j \in 1..(i - 1) : results[j] = <<>>)
    /\ idx' = IF results'[1] # <<>> THEN 1 ELSE idx
    /\ Ran(Cur, IF results'[1] # <<>> THEN "merge" ELSE "gather")
    /\ UNCHANGED <<batch, started, rb_idx, output, checkpoints>>

\* a task of the gather returns its StepResult; the gather returns when the
\* last one has
FinishTask(i, success, out) ==
    /\ pc = "gather"
    /\ i \in 1..started
    /\ results[i] = <<>>
    /\ results' = [results EXCEPT ![i] = <<StepResult(batch[i], success, out)>>]
    /\ overtaken' = (overtaken \/ \E j \in 1..(i - 1) : results[j] = <<>>)
    /\ idx' = IF \A j \in 1..Len(batch) : results'[j] # <<>> THEN 1 ELSE idx
    /\ Ran(Cur, IF \A j \in 1..Len(batch) : results'[j] # <<>> THEN "merge" ELSE "gather")
    /\ UNCHANGED <<batch, started, rb_idx, output, checkpoints>>

\* what the Reflector may answer for this node and result
Verdicts(node, result) ==
    IF result.success /\ node.exit_criteria.required /\ node.exit_criteria.validation_prompt
    THEN BOOLEAN ELSE {TRUE}

\* an iteration that marks the node FAILED and leaves the failure unhandled
MergeNodeFailureUnhandled(verdict) ==
    /\ pc = "merge"
    /\ idx \in 1..Len(batch)
    /\ \E so \in IterationOrders({batch[idx]}) :
       LET n      == batch[idx]
           result == results[idx][1]
           G1     == [MergeResult(CurIn(so), n, result.output)
                         EXCEPT !.nodes[n].result = <<result.output>>]
           passed == result.success /\ CheckExitCriteria(G1.nodes[n], result, verdict)
           asked  == IF Verdicts(nodes[n], result) = BOOLEAN THEN << verdict >> ELSE <<>>
           G2     == Transition(G1, n, FAILED)
       IN  /\ verdict \in Verdicts(nodes[n], result)
           /\ RanAsked(IF passed THEN Transition(G1, n, COMPLETED)
                       ELSE IF G2.err = NoErr
                            THEN [G2 EXCEPT !.node_failed = @ \cup {n}] ELSE G2,
                       "merge", asked)
           /\ idx' = idx + 1
           /\ rb_idx' = 0
    /\ UNCHANGED <<batch, started, results, overtaken, output, checkpoints>>

\* execute(): one iteration of the loop over zip(batch, results)
MergeNode(verdict) ==
    /\ pc = "merge"
    /\ idx \in 1..Len(batch)
    /\ \E so \in IterationOrders({batch[idx]}) :
       LET n      == batch[idx]
           result == results[idx][1]
           G1     == [MergeResult(CurIn(so), n, result.output)
                         EXCEPT !.nodes[n].result = <<result.output>>]
           passed == result.success /\ CheckExitCriteria(G1.nodes[n], result, verdict)
           asked  == IF Verdicts(nodes[n], result) = BOOLEAN THEN << verdict >> ELSE <<>>
           G2     == Transition(G1, n, FAILED)
           F      == HandleFailure(
                         IF G2.err = NoErr
                         THEN [G2 EXCEPT !.node_failed = @ \cup {n}] ELSE G2, n, 1)
       IN  /\ verdict \in Verdicts(nodes[n], result)
           /\ IF passed
              THEN /\ RanAsked(Transition(G1, n, COMPLETED), "merge", asked)
                   /\ idx' = idx + 1
                   /\ rb_idx' = 0
              ELSE /\ RanAsked(F.G, IF F.rb_idx > 0 THEN "rollback" ELSE "merge", asked)
                   /\ idx' = IF F.rb_idx > 0 THEN idx ELSE idx + 1
                   /\ rb_idx' = F.rb_idx
    /\ UNCHANGED <<batch, started, results, overtaken, output, checkpoints>>

\* _handle_failure: the awaited run of a rollback target returns
RollbackFinish(success, out) ==
    /\ pc = "rollback"
    /\ \E so \in IterationOrders({batch[idx]}) :
       LET n  == batch[idx]
           rb == GetRollbackTargets(Cur, n)[rb_idx]
           G1 == Transition(MergeResult(CurIn(so), rb, out), rb,
                            IF success THEN COMPLETED ELSE FAILED)
           F  == HandleFailure(G1, n, rb_idx + 1)
       IN  /\ Ran(F.G, IF F.rb_idx > 0 THEN "rollback" ELSE "merge")
           /\ idx' = IF F.rb_idx > 0 THEN idx ELSE idx + 1
           /\ rb_idx' = F.rb_idx
    /\ UNCHANGED <<batch, started, results, overtaken, output, checkpoints>>

\* a round end that saves the checkpoint before the conditions, the
\* refresh and the structural completion
RoundEndEarlyCheckpoint ==
    /\ pc = "merge"
    /\ idx > Len(batch)
    /\ \E so \in IterationOrders({edges[i].target : i \in 1..Len(edges)} \cap DOMAIN nodes) :
       LET G == CompleteStructuralNodes(RefreshReadyStates(ProcessConditions(CurIn(so))))
       IN  /\ Ran(G, "loop")
           /\ checkpoints' = IF G.err = NoErr
                             THEN Append(checkpoints, ToDict(Cur)) ELSE checkpoints
    /\ overtaken' = FALSE
    /\ UNCHANGED <<batch, started, results, idx, rb_idx, output>>

\* execute(): the rest of the round after the loop over the batch
RoundEnd ==
    /\ pc = "merge"
    /\ idx > Len(batch)
    /\ \E so \in IterationOrders({edges[i].target : i \in 1..Len(edges)} \cap DOMAIN nodes) :
       LET G == CompleteStructuralNodes(RefreshReadyStates(ProcessConditions(CurIn(so))))
       IN  /\ Ran(G, "loop")
           /\ checkpoints' = IF G.err = NoErr
                             THEN Append(checkpoints, ToDict(G)) ELSE checkpoints
    /\ overtaken' = FALSE
    /\ UNCHANGED <<batch, started, results, idx, rb_idx, output>>

Next ==
    \/ ExecuteStart
    \/ LoopExit
    \/ StructuralRound
    \/ BatchRound
    \/ StartTask
    \/ \E i \in 1..MAX_PARALLEL_NODES, o \in Outcomes : FinishTask(i, o[1], o[2])
    \/ \E verdict \in BOOLEAN : MergeNode(verdict)
    \/ \E o \in Outcomes : RollbackFinish(o[1], o[2])
    \/ RoundEnd

Spec == Init /\ [][Next]_vars

(***************************************************************************)
(* DAGExecutor(max_parallel = 1 or more).execute(dag) on graphs of four     *)
(* nodes, where the cap leaves ready nodes out of a batch                  *)
(***************************************************************************)
CappedIds == {1, 2, 3, 4}

\* node 1 may fail with the rollback target 3; node 3 depends on node 2
\* and node 4 on node 3
CappedEdgeLists ==
    LET all == <<TaskEdge(1, 3, ROLLBACK, <<>>), TaskEdge(2, 3, DEPENDENCY, <<>>),
                 TaskEdge(3, 4, DEPENDENCY, <<>>)>>
    IN  {SelectSeq(all, LAMBDA e : e \in S) : S \in SUBSET Range(all)}

\* the graph given to the constructor: ACTION nodes, or a GOAL without
\* children and three ACTION nodes, all PENDING
InitCapped ==
    /\ order = SortedSeq(CappedIds)
    /\ \E t \in {ACTION_NODE, GOAL} :
          nodes = [n \in CappedIds |->
                      TaskNode(n, IF n = 1 THEN t ELSE ACTION_NODE, <<>>, PENDING)]
    /\ edges \in CappedEdgeLists
    /\ node_results = <<>>
    /\ max_parallel \in 1..MaxParallelArg
    /\ pc = "init"
    /\ batch = <<>> /\ started = 0 /\ results = <<>> /\ idx = 0 /\ rb_idx = 0
    /\ output = <<>> /\ runner_calls = <<>> /\ node_failed = {}
    /\ checkpoints = <<>> /\ overtaken = FALSE /\ answer = <<>>
    /\ events = <<>> /\ writes = <<>> /\ err = NoErr
    /\ call = NoCall /\ ret = <<>>
    /\ ToolsIdle

SpecCapped == InitCapped /\ [][Next]_vars

(***************************************************************************)
(* execute() on the graph of _build_research_dag: a goal above two         *)
(* subgoals, two independent actions under the first and an action that    *)
(* depends on both; it has no ROLLBACK and no CONDITIONAL edge             *)
(***************************************************************************)
goal_1  == 1
sub_1   == 2
sub_2   == 3
act_1_1 == 4
act_1_2 == 5
act_2_1 == 6

ResearchNodes ==
    (goal_1 :> TaskNode(goal_1, GOAL, <<>>, PENDING))
    @@ (sub_1 :> TaskNode(sub_1, SUBGOAL, <<goal_1>>, PENDING))
    @@ (sub_2 :> TaskNode(sub_2, SUBGOAL, <<goal_1>>, PENDING))
    @@ (act_1_1 :> TaskNode(act_1_1, ACTION_NODE, <<sub_1>>, PENDING))
    @@ (act_1_2 :> TaskNode(act_1_2, ACTION_NODE, <<sub_1>>, PENDING))
    @@ (act_2_1 :> TaskNode(act_2_1, ACTION_NODE, <<sub_2>>, PENDING))

ResearchEdges ==
    << TaskEdge(goal_1, sub_1, DEPENDENCY, <<>>),
       TaskEdge(goal_1, sub_2, DEPENDENCY, <<>>),
       TaskEdge(sub_1, act_1_1, DEPENDENCY, <<>>),
       TaskEdge(sub_1, act_1_2, DEPENDENCY, <<>>),
       TaskEdge(act_1_1, act_2_1, DEPENDENCY, <<>>),
       TaskEdge(act_1_2, act_2_1, DEPENDENCY, <<>>) >>

\* the graph with and without the edge from the second subgoal to its action
InitResearch ==
    /\ order = <<goal_1, sub_1, sub_2, act_1_1, act_1_2, act_2_1>>
    /\ nodes = ResearchNodes
    /\ edges \in {ResearchEdges,
                  Append(ResearchEdges, TaskEdge(sub_2, act_2_1, DEPENDENCY, <<>>))}
    /\ node_results = <<>>
    /\ max_parallel \in 2..MAX_PARALLEL_NODES
    /\ pc = "init"
    /\ batch = <<>> /\ started = 0 /\ results = <<>> /\ idx = 0 /\ rb_idx = 0
    /\ output = <<>> /\ runner_calls = <<>> /\ node_failed = {}
    /\ checkpoints = <<>> /\ overtaken = FALSE /\ answer = <<>>
    /\ events = <<>> /\ writes = <<>> /\ err = NoErr
    /\ call = NoCall /\ ret = <<>>
    /\ ToolsIdle

\* execute() where no node has a rollback target
NextResearch ==
    \/ ExecuteStart
    \/ LoopExit
    \/ StructuralRound
    \/ BatchRound
    \/ StartTask
    \/ \E i \in 1..MAX_PARALLEL_NODES, o \in Outcomes : FinishTask(i, o[1], o[2])
    \/ \E verdict \in BOOLEAN : MergeNode(verdict)
    \/ RoundEnd

SpecResearch == InitResearch /\ [][NextResearch]_vars

(***************************************************************************)
(* execute() with adaptive planning on the graph of _build_research_dag:   *)
(* between the structural completion and the checkpoint of a round the     *)
(* Adapter is asked and its instructions are applied                       *)
(***************************************************************************)
\* config.ADAPT_PLAN_MIN_COMPLETED; config.ADAPT_PLAN_INTERVAL is 1, every
\* round
ADAPT_PLAN_MIN_COMPLETED == 1

\* TaskDAG.get_pending_action_nodes
GetPendingActionNodes(G) ==
    SelectSeq(G.order, LAMBDA n : /\ G.nodes[n].node_type = ACTION_NODE
                                  /\ G.nodes[n].status \in {PENDING, READY})

\* TaskDAG.get_completed_action_count
GetCompletedActionCount(G) ==
    Cardinality({n \in DOMAIN G.nodes : /\ G.nodes[n].node_type = ACTION_NODE
                                        /\ G.nodes[n].status = COMPLETED})

\* AdaptationResult
AdaptationResult(should_adapt, adaptations) ==
    [should_adapt |-> should_adapt, adaptations |-> adaptations]

\* PlannerAgent.adapt_plan(dag): no adaptation when no ACTION node is
\* PENDING or READY; otherwise what the model answers, here nothing, the
\* removal of an action or the change of its texts
AdaptPlan(G) ==
    IF GetPendingActionNodes(G) = <<>> THEN {AdaptationResult(FALSE, <<>>)}
    ELSE {AdaptationResult(FALSE, <<>>)}
         \cup {AdaptationResult(TRUE, <<PlanAdaptation("remove", n, <<>>, <<>>, <<>>)>>) :
                   n \in {act_1_2, act_2_1}}
         \cup {AdaptationResult(TRUE, <<PlanAdaptation("modify", act_2_1, <<"adapted">>, <<>>, <<>>)>>)}

\* the graph of the test: the structural nodes COMPLETED or all nodes
\* PENDING
InitAdaptive ==
    /\ order = <<goal_1, sub_1, sub_2, act_1_1, act_1_2, act_2_1>>
    /\ \E st \in {PENDING, COMPLETED} :
          nodes = [n \in DOMAIN ResearchNodes |->
                      IF ResearchNodes[n].node_type = ACTION_NODE THEN ResearchNodes[n]
                      ELSE [ResearchNodes[n] EXCEPT !.status = st]]
    /\ edges = Append(ResearchEdges, TaskEdge(sub_2, act_2_1, DEPENDENCY, <<>>))
    /\ node_results = <<>>
    /\ max_parallel \in 1..MAX_PARALLEL_NODES
    /\ pc = "init"
    /\ batch = <<>> /\ started = 0 /\ results = <<>> /\ idx = 0 /\ rb_idx = 0
    /\ output = <<>> /\ runner_calls = <<>> /\ node_failed = {}
    /\ checkpoints = <<>> /\ overtaken = FALSE /\ answer = <<>>
    /\ events = <<>> /\ writes = <<>> /\ err = NoErr
    /\ call = NoCall /\ ret = <<>>
    /\ ToolsIdle

\* execute(): the rest of the round after the loop over the batch, with
\* the adaptation before the checkpoint
AdaptiveRoundEnd ==
    /\ pc = "merge"
    /\ idx > Len(batch)
    /\ \E so \in IterationOrders({edges[i].target : i \in 1..Len(edges)} \cap DOMAIN nodes) :
       LET G     == CompleteStructuralNodes(RefreshReadyStates(ProcessConditions(CurIn(so))))
           asked == G.err = NoErr /\ GetCompletedActionCount(G) >= ADAPT_PLAN_MIN_COMPLETED
       IN  \E verdict \in (IF asked THEN AdaptPlan(G) ELSE {AdaptationResult(FALSE, <<>>)}) :
              LET R == IF verdict.should_adapt
                       THEN ApplyAdaptations(G, verdict.adaptations)
                       ELSE [G |-> G, changes |-> <<>>]
              IN  /\ order' = R.G.order
                  /\ nodes' = R.G.nodes
                  /\ edges' = R.G.edges
                  /\ node_results' = R.G.node_results
                  /\ runner_calls' = R.G.runner_calls
                  /\ node_failed' = R.G.node_failed
                  /\ events' = R.G.events
                  /\ writes' = R.G.writes
                  /\ err' = R.G.err
                  /\ pc' = IF R.G.err # NoErr THEN "raised" ELSE "loop"
                  /\ call' = IF asked
                             THEN [op |-> "adapt_plan", verdict |-> verdict,
                                   changes |-> R.changes]
                             ELSE NoCall
                  /\ checkpoints' = IF R.G.err = NoErr
                                    THEN Append(checkpoints, ToDict(R.G)) ELSE checkpoints
    /\ answer' = <<>>
    /\ overtaken' = FALSE
    /\ UNCHANGED <<max_parallel, ret, batch, started, results, idx, rb_idx, output,
                   router, history, todo_list>>

NextAdaptive ==
    \/ ExecuteStart
    \/ LoopExit
    \/ StructuralRound
    \/ BatchRound
    \/ StartTask
    \/ \E i \in 1..MAX_PARALLEL_NODES, o \in Outcomes : FinishTask(i, o[1], o[2])
    \/ \E verdict \in BOOLEAN : MergeNode(verdict)
    \/ AdaptiveRoundEnd

SpecAdaptive == InitAdaptive /\ [][NextAdaptive]_vars

(***************************************************************************)
(* execute() on a graph with a dangling edge: TaskDAG._validate_dag only   *)
(* logs an endpoint that is not in nodes, and _parse_dag takes the         *)
(* dependency ids from the planner's answer without looking them up        *)
(***************************************************************************)
\* the dependency edges with one endpoint that is not in nodes
DanglingCandidates ==
    {TaskEdge(Absent, t, DEPENDENCY, <<>>) : t \in NodeIds}
    \cup {TaskEdge(n, Absent, DEPENDENCY, <<>>) : n \in NodeIds}

InitDangling ==
    /\ order = SortedSeq(NodeIds)
    \* _parse_dag makes the goal node first
    /\ \E shape \in {x \in Shapes : x[Head(order)].node_type = GOAL} :
          nodes = [n \in NodeIds |->
                      TaskNode(n, shape[n].node_type, shape[n].parent_id, PENDING)]
    /\ \E d \in DanglingCandidates, es \in EdgeLists :
          edges \in {<<d>> \o es, es \o <<d>>}
    /\ node_results = <<>>
    /\ max_parallel = MAX_PARALLEL_NODES
    /\ pc = "init"
    /\ batch = <<>> /\ started = 0 /\ results = <<>> /\ idx = 0 /\ rb_idx = 0
    /\ output = <<>> /\ runner_calls = <<>> /\ node_failed = {}
    /\ checkpoints = <<>> /\ overtaken = FALSE /\ answer = <<>>
    /\ events = <<>> /\ writes = <<>> /\ err = NoErr
    /\ call = NoCall /\ ret = <<>>
    /\ ToolsIdle

\* execute(): dag.get_ready_nodes() raises KeyError
ReadyNodesRaises ==
    /\ pc = "loop"
    /\ ~IsComplete(Cur)
    /\ GetReadyNodesRaises(Cur)
    /\ Ran([Cur EXCEPT !.err = "KeyError"], "raised")
    /\ UNCHANGED <<batch, started, results, overtaken, idx, rb_idx, output, checkpoints>>

NextDangling ==
    \/ Next
    \/ ReadyNodesRaises

SpecDangling == InitDangling /\ [][NextDangling]_vars

(***************************************************************************)
(* execute() with an ActionRunner that may raise instead of returning      *)
(***************************************************************************)
\* a task of the gather raises: asyncio.gather (return_exceptions is not
\* set) raises it in execute(), which has no handler
TaskRaises(i) ==
    /\ pc = "gather"
    /\ i \in 1..started
    /\ results[i] = <<>>
    /\ Ran([Cur EXCEPT !.err = "RunnerError"], "raised")
    /\ UNCHANGED <<batch, started, results, overtaken, idx, rb_idx, output, checkpoints>>

\* _handle_failure: the awaited run of a rollback target raises
RollbackRaises ==
    /\ pc = "rollback"
    /\ Ran([Cur EXCEPT !.err = "RunnerError"], "raised")
    /\ UNCHANGED <<batch, started, results, overtaken, idx, rb_idx, output, checkpoints>>

NextRaising ==
    \/ Next
    \/ \E i \in 1..MAX_PARALLEL_NODES : TaskRaises(i)
    \/ RollbackRaises

SpecRaising == Init /\ [][NextRaising]_vars

(***************************************************************************)
(* Claims about the state machine (checked under SpecSM)                   *)
(***************************************************************************)
\* the transition table as the specification states it
TableOfSpec(status) ==
    CASE status = PENDING -> {READY, SKIPPED}
      [] status = READY   -> {RUNNING, SKIPPED}
      [] status = RUNNING -> {COMPLETED, FAILED}
      [] status = FAILED  -> {ROLLED_BACK, SKIPPED}
      [] OTHER            -> {}

IsTransitionCall(c, n, s) == c.op = "transition" /\ c.node = n /\ c.new_status = s

C7_SkippedFromEveryNonTerminal ==
    [][\A n \in NodeIds :
          /\ IsTransitionCall(call', n, SKIPPED)
          /\ nodes[n].status \in {PENDING, READY, RUNNING, FAILED}
          => err' = NoErr /\ nodes'[n].status = SKIPPED]_vars

(***************************************************************************)
(* Claims about the graph (checked under SpecGraph)                        *)
(***************************************************************************)
\* the DEPENDENCY edges of the graph, as pairs
DepPairs(es) == {<<es[i].source, es[i].target>> :
                    i \in {j \in 1..Len(es) : es[j].edge_type = DEPENDENCY}}

\* the nodes reached from the set S by one DEPENDENCY edge
DepStep(es, S) == {p[2] : p \in {q \in DepPairs(es) : q[1] \in S}}

\* the nodes reached from S by one or more DEPENDENCY edges, at most k of them
RECURSIVE DepReach(_, _, _)
DepReach(es, S, k) ==
    IF k = 0 THEN {}
    ELSE DepStep(es, S) \cup DepReach(es, DepStep(es, S), k - 1)

\* downstream(n) as the specification defines it
DownstreamOfSpec(es, n) == DepReach(es, {n}, Cardinality(NodeIds))

IsMarkCall(c, n) == c = [op |-> "mark_subtree_skipped", node |-> n]

RollbackTargetsOfSpec(es, n) ==
    {es[i].target : i \in {j \in 1..Len(es) : /\ es[j].source = n
                                               /\ es[j].edge_type = ROLLBACK}}

\* the status in which a failed node ends
EndOfFailed(n) ==
    IF RollbackTargetsOfSpec(edges, n) # {} THEN ROLLED_BACK ELSE SKIPPED

\* this step resolves the failure of n: it moves n out of FAILED
Resolved(n) == \E i \in 1..Len(writes') : writes'[i].id = n /\ writes'[i].old = FAILED

\* a step that leaves execute() awaiting a rollback run has passed to the
\* runner a rollback target of the failed node that was PENDING
RollbackRunsPendingTarget ==
    pc' = "rollback" =>
       /\ Len(runner_calls') = Len(runner_calls) + 1
       /\ runner_calls'[Len(runner_calls')] \in RollbackTargetsOfSpec(edges, batch[idx'])
       /\ nodes[runner_calls'[Len(runner_calls')]].status = PENDING

\* when the failure of n is resolved no rollback target of n is left PENDING
\* and n is in the status its ROLLBACK edges decide
FailedNodeResolved(n) ==
    /\ n \in node_failed'
    /\ nodes'[n].status = EndOfFailed(n)
    /\ \A t \in RollbackTargetsOfSpec(edges, n) : nodes[t].status # PENDING

GatedPairs(es) ==
    {<<es[i].source, es[i].target, es[i].condition[1]>> :
        i \in {j \in 1..Len(es) : /\ es[j].edge_type = CONDITIONAL
                                  /\ es[j].condition # <<>>
                                  /\ es[j].condition[1] # <<>>
                                  /\ <<es[j].source, es[j].target>> \in DepPairs(es)}}

\* the stored result of n; no entry is the empty text
StoredResult(n) == IF n \in DOMAIN node_results THEN node_results[n] ELSE <<>>

\* the keyword k is a case-insensitive substring of the stored result of s
KeywordIn(k, s) == Contains(Lower(k), Lower(StoredResult(s)))

\* C4: for a CONDITIONAL edge (s, t) with a keyword, paired with a
\* DEPENDENCY edge (s, t): once s is COMPLETED, t is passed to the runner
\* only if the keyword is a case-insensitive substring of the stored result
\* of s; if it is not, t ends SKIPPED and no node of downstream(t) ends in a
\* non-terminal status.
C4_ConditionGatesTarget ==
    /\ [][\A g \in GatedPairs(edges) :
             /\ nodes[g[1]].status = COMPLETED
             /\ g[2] \in Range(runner_calls') \ Range(runner_calls)
             => KeywordIn(g[3], g[1])]_vars
    /\ [](pc = "done" =>
             \A g \in GatedPairs(edges) :
                nodes[g[1]].status = COMPLETED /\ ~KeywordIn(g[3], g[1]) =>
                   /\ nodes[g[2]].status = SKIPPED
                   /\ \A m \in DownstreamOfSpec(edges, g[2]) :
                         nodes[m].status \in {COMPLETED, SKIPPED, ROLLED_BACK})

\* the direct children of n
ChildrenOfSpec(n) == {c \in NodeIds : nodes[c].parent_id = <<n>>}

\* C5: a GOAL or SUBGOAL node is COMPLETED only when all its direct
\* children are terminal and at least one of them is COMPLETED; in no
\* reachable state is it COMPLETED while a child is PENDING, READY or
\* RUNNING.
C5_StructuralFollowsChildren ==
    \A n \in NodeIds :
       nodes[n].node_type # ACTION_NODE /\ nodes[n].status = COMPLETED =>
          /\ \A c \in ChildrenOfSpec(n) :
                nodes[c].status \in {COMPLETED, SKIPPED, ROLLED_BACK}
          /\ \E c \in ChildrenOfSpec(n) : nodes[c].status = COMPLETED

\* the assignments this step made to the status of n, in order
WritesOf(n) == SelectSeq(writes', LAMBDA w : w.id = n)

\* C6: during execute() every change of a node's status, made through
\* transition() or by direct assignment, is a transition of the table: the
\* assignments a step makes to a node lead from its status before the step
\* to its status after it, each one through an entry of the table; a node
\* that is COMPLETED, SKIPPED or ROLLED_BACK never changes status again.
C6_EveryChangeInTable ==
    [][\A n \in NodeIds :
          /\ \A i \in 1..Len(WritesOf(n)) :
                /\ WritesOf(n)[i].new \in TableOfSpec(WritesOf(n)[i].old)
                /\ WritesOf(n)[i].old = IF i = 1 THEN nodes[n].status
                                        ELSE WritesOf(n)[i - 1].new
          /\ nodes'[n].status = IF WritesOf(n) = <<>> THEN nodes[n].status
                                ELSE WritesOf(n)[Len(WritesOf(n))].new
          /\ nodes[n].status \in {COMPLETED, SKIPPED, ROLLED_BACK}
                => nodes'[n].status = nodes[n].status]_vars

\* C6 witness: the end of a round in which conditional evaluation skipped a
\* node by direct assignment and a structural node was driven to COMPLETED
\* through transition()
C6_Witness ==
    /\ pc = "loop"
    /\ \E i, j \in 1..Len(writes) :
          /\ ~writes[i].sm /\ writes[i].old = PENDING /\ writes[i].new = SKIPPED
          /\ writes[j].sm /\ writes[j].new = COMPLETED
          /\ nodes[writes[j].id].node_type # ACTION_NODE
          /\ i < j

\* n is ready as the specification defines it
ReadyOfSpec(n) ==
    /\ nodes[n].status \in {PENDING, READY}
    /\ \A p \in DepPairs(edges) : p[2] = n => nodes[p[1]].status = COMPLETED

\* C9: every batch consists only of ACTION nodes that were ready when the
\* round began and has at most max_parallel members; at most max_parallel
\* nodes are RUNNING in any reachable state; no GOAL or SUBGOAL node is
\* ever passed to the runner.
C9_OnlyReadyActionsRun ==
    /\ [][pc = "loop" /\ pc' = "gather" =>
             /\ \A i \in 1..Len(batch') :
                   nodes[batch'[i]].node_type = ACTION_NODE /\ ReadyOfSpec(batch'[i])
             /\ Len(batch') <= max_parallel]_vars
    /\ [](/\ Cardinality({n \in NodeIds : nodes[n].status = RUNNING}) <= max_parallel
          /\ \A i \in 1..Len(runner_calls) :
                nodes[runner_calls[i]].node_type = ACTION_NODE)

\* the keys of node_results this step added or gave another value
Stored ==
    {k \in DOMAIN node_results' :
        k \notin DOMAIN node_results \/ node_results'[k] # node_results[k]}

\* C10: when the merge loop of a round is over, node_results holds for
\* every node of the batch the output its own task returned, under its own
\* id, whatever order the tasks finished in; a step stores under one key at
\* most and removes or changes no other entry.
C10_ResultsUnderOwnId ==
    /\ [](pc = "merge" /\ idx > Len(batch) =>
             \A i \in 1..Len(batch) :
                /\ results[i][1].step_id = batch[i]
                /\ batch[i] \in DOMAIN node_results
                /\ node_results[batch[i]] = results[i][1].output)
    /\ [][/\ DOMAIN node_results \subseteq DOMAIN node_results'
          /\ Cardinality(Stored) <= 1
          /\ pc = "merge" /\ idx <= Len(batch) => Stored \subseteq {batch[idx]}]_vars

\* C10 witness: the merge loop is over for a batch of two whose second task
\* returned before the first, and the two stored outputs differ
C10_Witness ==
    /\ pc = "merge" /\ idx > Len(batch)
    /\ Len(batch) = 2
    /\ overtaken
    /\ node_results[batch[1]] = OutNo
    /\ node_results[batch[2]] = OutYes

(***************************************************************************)
(* The round boundary                                                      *)
(***************************************************************************)
\* every task of the batch has been started and has returned
BatchReturned ==
    /\ started = Len(batch)
    /\ \A j \in 1..Len(batch) : results[j] # <<>>

\* the nodes whose run was started before this step and that are not in the
\* batch of the round: they ran in an earlier round or as rollback targets
RanBefore == Range(runner_calls) \ Range(batch')

\* this step leaves a node in a status it did not have
Becomes(S) == \E n \in NodeIds : nodes'[n].status \in S /\ nodes[n].status \notin S

\* C11: the end of a round is a barrier.  When the run of a node starts,
\* the output of every node that ran before the round's batch is in
\* node_results; and a node is completed, failed, skipped or rolled back,
\* or a rollback target is run, only when every task of the batch has
\* returned.
C11_RoundBarrier ==
    /\ [](pc \in {"merge", "rollback"} => BatchReturned)
    /\ [][runner_calls' # runner_calls => RanBefore \subseteq DOMAIN node_results']_vars
    /\ [][Becomes({COMPLETED, FAILED, SKIPPED, ROLLED_BACK}) /\ batch # <<>>
              => BatchReturned]_vars

\* C11 witness: the second task of a batch of two has been started in a
\* round after one in which a node ran, and that node's output is stored
C11_Witness ==
    /\ pc = "gather"
    /\ Len(batch) = 2 /\ started = 2
    /\ \E n \in Range(runner_calls) \ Range(batch) : n \in DOMAIN node_results

\* C12: on the research graph with max_parallel >= 2, the two independent
\* actions are started in one batch; the action that depends on both is
\* returned by get_ready_nodes, and run, only when both are COMPLETED; and
\* when one of the two has failed, the dependent action is never run and is
\* SKIPPED when execute() returns.
C12_ResearchScenario ==
    /\ batch \in {<<>>, <<act_1_1, act_1_2>>, <<act_2_1>>}
    /\ (act_2_1 \in Range(GetReadyNodes(Cur)) \/ act_2_1 \in Range(runner_calls))
          => /\ nodes[act_1_1].status = COMPLETED
             /\ nodes[act_1_2].status = COMPLETED
    /\ node_failed \cap {act_1_1, act_1_2} # {}
          => /\ act_2_1 \notin Range(runner_calls)
             /\ pc = "done" => nodes[act_2_1].status = SKIPPED
    /\ pc # "raised"

\* C12 witness: execute() has returned after one of the two independent
\* actions failed in the batch both were started in, and the dependent
\* action is SKIPPED
C12_Witness ==
    /\ pc = "done"
    /\ runner_calls = <<act_1_1, act_1_2>>
    /\ node_failed = {act_1_2}
    /\ nodes[act_1_1].status = COMPLETED
    /\ nodes[act_2_1].status = SKIPPED

(***************************************************************************)
(* Termination of execute()                                                *)
(***************************************************************************)
\* the number of nodes of ns in a status of is_complete
TerminalCount(ns) == Cardinality({n \in DOMAIN ns : ns[n].status \in Terminal})

\* C13: execute() raises nothing; the loop is left as soon as the graph is
\* complete or no node is ready; a structural round leaves more nodes in a
\* terminal status than it found, and at the end of the merge loop of a
\* batch round every node of the batch is in a terminal status.
C13_ExecuteReturns ==
    /\ [](pc # "raised")
    /\ [](pc = "merge" /\ idx > Len(batch) =>
             /\ batch # <<>>
             /\ \A i \in 1..Len(batch) : nodes[batch[i]].status \in Terminal)
    /\ [][pc = "loop" /\ pc' = "loop" => TerminalCount(nodes') > TerminalCount(nodes)]_vars
    /\ [][pc = "loop" /\ (IsComplete(Cur) \/ GetReadyNodes(Cur) = <<>>)
              => pc' = "done" /\ output' # <<>>]_vars

(***************************************************************************)
(* The stall exit                                                          *)
(***************************************************************************)
\* execute() leaves the loop at the break: no node is ready and the graph
\* is not complete
StallExit == pc = "loop" /\ pc' = "done" /\ ~IsComplete(Cur)

\* C14: when the loop is left at the break, some node is FAILED.
C14_StallHasFailedNode ==
    [][StallExit => \E n \in DOMAIN nodes : nodes[n].status = FAILED]_vars

(***************************************************************************)
(* Errors that leave execute()                                             *)
(***************************************************************************)
\* C15: execute() ends by raising only when a transition was illegal: an
\* exception of the runner is absorbed into the graph and never reaches
\* the caller.
C15_OnlyIllegalTransitionPropagates ==
    pc = "raised" => err = "InvalidTransitionError"

(***************************************************************************)
(* Exit criteria                                                           *)
(***************************************************************************)
\* this step is an iteration of the merge loop on a result that reports
\* success
MergesSuccess == pc = "merge" /\ idx \in 1..Len(batch) /\ results[idx][1].success

\* this step leaves the statuses, the runner calls and the position of
\* execute() as the failure handling of a node n whose run reported failure
AsExecutionFailure(n) ==
    LET F == HandleFailure(Transition(Cur, n, FAILED), n, 1)
    IN  /\ \A m \in DOMAIN nodes : nodes'[m].status = F.G.nodes[m].status
        /\ runner_calls' = F.G.runner_calls
        /\ rb_idx' = F.rb_idx
        /\ pc' = IF F.rb_idx > 0 THEN "rollback" ELSE "merge"

\* C16: in the merge loop, for a node whose run reported success, the
\* Reflector is asked exactly when the criterion is required and has a
\* validation prompt; the node becomes COMPLETED exactly when the criterion
\* is not required, or has no validation prompt, or the Reflector answered
\* true; otherwise it goes RUNNING -> FAILED, is recorded as failed and the
\* step ends as the failure handling of a failed run does: rollback target
\* started, or the node ROLLED_BACK or SKIPPED and its downstream skipped.
C16_CompletedIffCriteriaPass ==
    [][MergesSuccess =>
         LET n  == batch[idx]
             ec == nodes[n].exit_criteria
         IN  /\ (answer' # <<>>) <=> (ec.required /\ ec.validation_prompt)
             /\ (nodes'[n].status = COMPLETED)
                   <=> (~ec.required \/ ~ec.validation_prompt \/ answer' = << TRUE >>)
             /\ nodes'[n].status # COMPLETED =>
                   /\ writes'[1] = [id |-> n, old |-> RUNNING, new |-> FAILED, sm |-> TRUE]
                   /\ n \in node_failed'
                   /\ AsExecutionFailure(n)
                   /\ pc' = "merge" => nodes'[n].status = EndOfFailed(n)]_vars

\* C16 witness: the Reflector has just answered false for a node whose run
\* reported success; the node is SKIPPED and so is a node that depends on it
C16_Witness ==
    /\ pc = "merge" /\ idx > 1
    /\ answer = << FALSE >>
    /\ results[idx - 1][1].success
    /\ nodes[batch[idx - 1]].status = SKIPPED
    /\ \E m \in DownstreamOfSpec(edges, batch[idx - 1]) : nodes[m].status = SKIPPED

(***************************************************************************)
(* The compiled output                                                     *)
(***************************************************************************)
\* the ACTION nodes that are COMPLETED, in node iteration order
CompletedActions ==
    SelectSeq(order, LAMBDA n : nodes[n].node_type = ACTION_NODE /\ nodes[n].status = COMPLETED)

\* C17: what execute() returns is the stored results of the COMPLETED
\* ACTION nodes, those completed as rollback targets included, joined in
\* node iteration order, and the sentinel when there is none.
C17_OutputIsCompletedResults ==
    pc = "done" =>
       /\ \A n \in Range(CompletedActions) : n \in DOMAIN node_results
       /\ output = << IF CompletedActions = <<>> THEN NothingCompleted
                      ELSE Join([i \in 1..Len(CompletedActions) |->
                                    node_results[CompletedActions[i]]]) >>

(***************************************************************************)
(* Claims about the mutation API (checked under SpecMutate)                *)
(***************************************************************************)
\* the graph is left as it was
GraphUnchanged == UNCHANGED <<order, nodes, edges, node_results>>

\* the nodes other than n are left as they were
OthersKept(n) ==
    /\ DOMAIN nodes' \ {n} = DOMAIN nodes \ {n}
    /\ \A m \in DOMAIN nodes \ {n} : nodes'[m] = nodes[m]

\* the edges that do not touch n, in their order
NotIncident(es, n) == SelectSeq(es, LAMBDA e : e.source # n /\ e.target # n)

\* C18: remove_pending_node(n) returns true exactly when n is a node whose
\* status is PENDING; it then removes the node, the edges that have it as
\* source or target and its stored result, and nothing else; otherwise it
\* returns false and leaves nodes, edges and node_results as they were.  No
\* call removes a node whose status is not PENDING.
C18_RemoveOnlyPending ==
    /\ [][call'.op = "remove_pending_node" =>
          \A n \in MutationIds : CallRemovePendingNode(n) =>
             LET ok == n \in DOMAIN nodes /\ nodes[n].status = PENDING
             IN  /\ ret' = ok
                 /\ err' = NoErr
                 /\ ok => /\ n \notin DOMAIN nodes'
                          /\ OthersKept(n)
                          /\ edges' = NotIncident(edges, n)
                          /\ DOMAIN node_results' = DOMAIN node_results \ {n}
                          /\ \A m \in DOMAIN node_results' : node_results'[m] = node_results[m]
                 /\ ~ok => GraphUnchanged]_vars
    /\ [][\A n \in DOMAIN nodes : nodes[n].status # PENDING => n \in DOMAIN nodes']_vars

\* C18 witness: the first call removed node 2 of a graph with an edge
\* between its two nodes and a stored result for each
C18_Witness ==
    /\ call = [op |-> "remove_pending_node", nth |-> 1]
    /\ ret = TRUE
    /\ DOMAIN nodes = {1}
    /\ DOMAIN node_results = {1}
    /\ edges = <<>>

\* an edge of es has the key (s, t, ty)
HasKey(es, s, t, ty) ==
    \E i \in 1..Len(es) : es[i].source = s /\ es[i].target = t /\ es[i].edge_type = ty

\* this add_dynamic_edge step is what the call with the edge (s, t, ty)
\* does: it returns what that call returns and leaves the edges it leaves
AddEdgeStep(s, t, ty) ==
    LET R == AddDynamicEdge([nodes |-> nodes, edges |-> edges], TaskEdge(s, t, ty, <<>>))
    IN  ret' = R.r /\ edges' = R.G.edges

\* C19: add_dynamic_node returns false and changes nothing when the id is
\* in nodes, and otherwise returns true and adds that node and nothing
\* else; add_dynamic_edge returns false and changes nothing when the source
\* or the target is not in nodes or an edge with the same source, target
\* and type exists, and otherwise returns true and appends that edge and
\* nothing else; neither raises.
C19_AddRejectsConflicts ==
    /\ [][call'.op = "add_dynamic_node" =>
          \A n \in MutationIds : CallAddDynamicNode(n) =>
             /\ ret' = (n \notin DOMAIN nodes)
             /\ err' = NoErr
             /\ n \in DOMAIN nodes => GraphUnchanged
             /\ n \notin DOMAIN nodes =>
                   /\ DOMAIN nodes' = DOMAIN nodes \cup {n}
                   /\ OthersKept(n)
                   /\ nodes'[n].status = PENDING
                   /\ UNCHANGED <<edges, node_results>>]_vars
    /\ [][call'.op = "add_dynamic_edge" =>
          \A s, t \in MutationIds, ty \in MutationEdgeTypes : AddEdgeStep(s, t, ty) =>
             LET ok == /\ s \in DOMAIN nodes
                       /\ t \in DOMAIN nodes
                       /\ ~HasKey(edges, s, t, ty)
             IN  /\ ret' = ok
                 /\ err' = NoErr
                 /\ ~ok => GraphUnchanged
                 /\ ok => /\ Len(edges') = Len(edges) + 1
                          /\ SubSeq(edges', 1, Len(edges)) = edges
                          /\ HasKey(<<edges'[Len(edges')]>>, s, t, ty)
                          /\ UNCHANGED <<order, nodes, node_results>>]_vars

\* C19 witness: after a node with the new id 3 was added, the second call
\* added an edge that touches it
C19_Witness ==
    /\ call = [op |-> "add_dynamic_edge", nth |-> 2]
    /\ ret = TRUE
    /\ 3 \in DOMAIN nodes
    /\ \E i \in 1..Len(edges) : edges[i].source = 3 \/ edges[i].target = 3

\* C20: after any sequence of mutation calls on a graph without duplicate
\* and dangling edges, no two edges have the same source, target and type,
\* every edge joins two nodes of the graph, and every id is listed once.
C20_NoDuplicateNoDangling ==
    /\ \A i, j \in 1..Len(edges) :
          /\ edges[i].source = edges[j].source
          /\ edges[i].target = edges[j].target
          /\ edges[i].edge_type = edges[j].edge_type
          => i = j
    /\ \A i \in 1..Len(edges) : edges[i].source \in DOMAIN nodes /\ edges[i].target \in DOMAIN nodes
    /\ Range(order) = DOMAIN nodes
    /\ \A i, j \in 1..Len(order) : order[i] = order[j] => i = j

\* C20 witness: an add_dynamic_edge call was accepted and the next one
\* rejected, and the graph has two edges
C20_Witness ==
    /\ call = [op |-> "add_dynamic_edge", nth |-> 2]
    /\ ret = FALSE
    /\ Len(edges) = 2

\* the fields of a node that modify_node has no business with
KeptFields(node) ==
    [status |-> node.status, node_type |-> node.node_type, result |-> node.result,
     parent_id |-> node.parent_id, required |-> node.exit_criteria.required]

Malformed(a) ==
    \/ /\ a.action = "add"
       /\ \/ a.target_node_id \in DOMAIN nodes
          \/ a.parent_node_id # <<>> /\ a.parent_node_id[1] \notin DOMAIN nodes
    \/ /\ a.action = "remove"
       /\ \/ a.target_node_id \notin DOMAIN nodes
          \/ nodes[a.target_node_id].status # PENDING

\* C22: no instruction of a list raises or stops the list; a malformed
\* instruction and a keep instruction leave nodes, edges and results as
\* they were.
C22_MalformedInstructionSkipped ==
    [][call'.op = "apply_adaptations" =>
          /\ err' = NoErr
          /\ pc' = "api"
          /\ (Malformed(call'.adapt) \/ call'.adapt.action = "keep") => GraphUnchanged]_vars

\* the instructions that the Adapter returned in this step
Instructions(c) ==
    IF c.op = "adapt_plan" /\ c.verdict.should_adapt
    THEN Range(c.verdict.adaptations) ELSE {}

\* the ACTION node n has not been executed, waited for its dependencies
\* before this round, and they are all COMPLETED now
LastDependenciesCompleted(n) ==
    /\ n \in DOMAIN nodes
    /\ nodes[n].node_type = ACTION_NODE
    /\ nodes[n].status = PENDING
    /\ n \notin Range(runner_calls)
    /\ \A i \in 1..Len(edges) :
          edges[i].target = n /\ edges[i].edge_type = DEPENDENCY
          => nodes[edges[i].source].status = COMPLETED

\* C23: when the Adapter returns the removal of an ACTION node after the
\* round in which the last dependencies of the node completed, the node
\* leaves the graph in that step, is never run, and the COMPLETED nodes keep
\* status and result.
C23_RemoveAfterDependenciesComplete ==
    [][\A a \in Instructions(call') :
          a.action = "remove" /\ LastDependenciesCompleted(a.target_node_id)
          => /\ a.target_node_id \notin DOMAIN nodes'
             /\ \A m \in DOMAIN nodes : nodes[m].status = COMPLETED =>
                    /\ m \in DOMAIN nodes' /\ nodes'[m].status = COMPLETED
                    /\ (m \in DOMAIN node_results =>
                           m \in DOMAIN node_results' /\ node_results'[m] = node_results[m])]_vars

C25_DownstreamIsDependencyReach ==
    call.op = "get_downstream" =>
       /\ err = NoErr
       /\ Range(ret) = DownstreamOfSpec(edges, call.node)
       /\ \A i, j \in 1..Len(ret) : ret[i] = ret[j] => i = j

\* C25 witness: the node is on a cycle of DEPENDENCY edges and so is in its
\* own downstream
C25_Witness ==
    /\ call.op = "get_downstream"
    /\ call.node \in Range(ret)
    /\ Len(ret) = 2

\* the DEPENDENCY edges have a cycle: a node is in its own downstream
HasDependencyCycle(es) == \E n \in NodeIds : n \in DownstreamOfSpec(es, n)

\* the position of n in the sequence s, 0 if it is not in it
IndexOf(s, n) ==
    IF n \in Range(s) THEN CHOOSE i \in 1..Len(s) : s[i] = n ELSE 0

RemovedBy(p) ==
    {n \in (DownstreamOfSpec(edges, p) \cup {p}) \cap DOMAIN nodes :
        nodes[n].status # COMPLETED}

\* graph g has node n of graph h: the id, with the node h has under it
HasNodeOf(g, h, n) == n \in DOMAIN g.nodes /\ g.nodes[n] = h.nodes[n]

\* the first three parts of C29: the COMPLETED nodes and the results stay,
\* the removed nodes are gone, the old edges between other nodes stay
MergeKeepsAndRemoves ==
    LET old_dag == [nodes |-> nodes]
        removed == RemovedBy(call.parent_id)
    IN  /\ \A n \in DOMAIN nodes :
              nodes[n].status = COMPLETED =>
                 /\ HasNodeOf(ret, old_dag, n)
                 /\ n \in DOMAIN ret.node_results
                 /\ ret.node_results[n] = node_results[n]
        /\ \A n \in removed :
              n \in DOMAIN ret.nodes => /\ n \in DOMAIN call.new_dag.nodes
                                        /\ ret.nodes[n] = call.new_dag.nodes[n]
        /\ \A i \in 1..Len(edges) :
              (edges[i].source \notin removed /\ edges[i].target \notin removed)
                 => edges[i] \in Range(ret.edges)

\* C29 as stated: after a merge of a new subtree under p the graph has every
\* COMPLETED old node with its stored result, no old node of
\* downstream(p) and p that was not COMPLETED, every old edge that touches
\* no removed node, and every node and every edge of the new subtree.
C29_MergeContainsNewSubtree ==
    call.op = "merge_dags" =>
        /\ MergeKeepsAndRemoves
        /\ \A n \in DOMAIN call.new_dag.nodes : HasNodeOf(ret, call.new_dag, n)
        /\ Range(call.new_dag.edges) \subseteq Range(ret.edges)

\* C29, amended: as above, but of the new subtree the graph has the nodes
\* whose id is not the id of an old node that stays; under such an id the
\* old node stays and the new one is dropped. All edges of the new subtree
\* are there.
C29_MergeKeepsOldOnConflict ==
    call.op = "merge_dags" =>
        LET removed == RemovedBy(call.parent_id)
            new_dag == call.new_dag
        IN  /\ MergeKeepsAndRemoves
            /\ \A n \in DOMAIN new_dag.nodes :
                  IF n \in DOMAIN nodes \ removed
                  THEN HasNodeOf(ret, [nodes |-> nodes], n)
                  ELSE HasNodeOf(ret, new_dag, n)
            /\ DOMAIN ret.nodes = (DOMAIN nodes \ removed) \cup DOMAIN new_dag.nodes
            /\ Range(new_dag.edges) \subseteq Range(ret.edges)

\* C29 witness: a merge under a parent with a COMPLETED and a FAILED node
\* in its subtree; the new subtree brings a node under the id of the
\* removed node, a node under the id of an old node that stays, and an edge
C29_Witness ==
    /\ call.op = "merge_dags"
    /\ \E n \in DownstreamOfSpec(edges, call.parent_id) : nodes[n].status = COMPLETED
    /\ \E n \in RemovedBy(call.parent_id) :
          /\ nodes[n].status = FAILED
          /\ n \in DOMAIN call.new_dag.nodes
          /\ ret.nodes[n].status = PENDING
    /\ \E n \in DOMAIN call.new_dag.nodes :
          n \in DOMAIN nodes /\ n \notin RemovedBy(call.parent_id)
    /\ Len(call.new_dag.edges) = 1
    /\ Len(ret.edges) < Len(edges) + 1

\* C30: when the observer raises in a transition the table allows, the
\* node has the new status, transition() returns without an exception, and
\* nothing else changes: the other nodes, the edges, the stored results,
\* the checkpoints and the executor's variables are as before.
C30_ObserverFailureSwallowed ==
    [][\A n \in NodeIds, s \in NodeStatus :
          (/\ IsTransitionCall(call', n, s)
           /\ call'.observer = "raises"
           /\ CanTransition(nodes[n].status, s))
          => /\ err' = NoErr
             /\ nodes' = [nodes EXCEPT ![n].status = s]
             /\ events' = << <<n, nodes[n].status, s>> >>
             /\ UNCHANGED <<order, edges, node_results, checkpoints, max_parallel,
                            batch, started, results, idx, rb_idx, output,
                            runner_calls, node_failed, overtaken, answer, pc>>]_vars

\* C30 witness: a transition RUNNING -> COMPLETED whose observer raised
C30_Witness ==
    /\ call.op = "transition"
    /\ call.observer = "raises"
    /\ call.new_status = COMPLETED
    /\ events = << <<call.node, RUNNING, COMPLETED>> >>
    /\ nodes[call.node].status = COMPLETED
    /\ err = NoErr

\* the failures recorded for (node_id, tool_name) after its last recorded
\* success, counted in the calls made
RECURSIVE FailuresSinceSuccess(_, _, _)
FailuresSinceSuccess(h, node_id, tool_name) ==
    IF h = <<>> THEN 0
    ELSE LET c == h[Len(h)]
             before == SubSeq(h, 1, Len(h) - 1)
         IN  IF c.node # node_id \/ c.tool # tool_name
             THEN FailuresSinceSuccess(before, node_id, tool_name)
             ELSE IF c.op = "record_success" THEN 0
             ELSE 1 + FailuresSinceSuccess(before, node_id, tool_name)

C32_ReadyTodosExact ==
    call.op = "get_ready_todos" =>
        LET T == todo_list.todos
        IN  /\ Range(ret) = {id \in DOMAIN T :
                               /\ T[id].status = "pending"
                               /\ \A d \in Range(T[id].dependencies) :
                                     d \in DOMAIN T /\ T[d].status = "completed"}
            /\ \A i, j \in 1..Len(ret) : ret[i] = ret[j] => i = j

\* C32 witness: todo 1 completed, todo 2 that depends on it returned, todo
\* 3 that depends on todo 2 and on an id that names no todo not returned
C32_Witness ==
    /\ call.op = "get_ready_todos"
    /\ DOMAIN todo_list.todos = 1..3
    /\ todo_list.todos[1].status = TODO_COMPLETED
    /\ todo_list.todos[2].dependencies = <<1>>
    /\ todo_list.todos[3].dependencies = <<2, 4>>
    /\ ret = <<2>>

\* the node the step passes to the ActionRunner, if it passes one
RunnerCalled(n) == runner_calls' = Append(runner_calls, n)

\* all DEPENDENCY predecessors of n are COMPLETED
PredecessorsCompleted(n) ==
    \A p \in DepPairs(edges) : p[2] = n => nodes[p[1]].status = COMPLETED

\* C33 as stated: a node is passed to the ActionRunner only when all its
\* DEPENDENCY predecessors are COMPLETED, be it run in a batch or as a
\* rollback target.
C33_RunsOnlyAfterDependencies ==
    [][\A n \in NodeIds : RunnerCalled(n) => PredecessorsCompleted(n)]_vars

\* C33, amended: every step passes at most one node to the ActionRunner; a
\* node of a batch is passed only when all its DEPENDENCY predecessors are
\* COMPLETED; a rollback target is passed when it is PENDING and the node
\* whose failure is being handled has a ROLLBACK edge to it, whatever the
\* status of its DEPENDENCY predecessors.
C33_BatchAfterDependenciesRollbackWhenPending ==
    [][/\ runner_calls' # runner_calls => \E n \in NodeIds : RunnerCalled(n)
       /\ \A n \in NodeIds :
             RunnerCalled(n) =>
                IF pc = "gather"
                THEN /\ n = batch[started + 1]
                     /\ PredecessorsCompleted(n)
                ELSE /\ pc \in {"merge", "rollback"}
                     /\ nodes[n].status = PENDING
                     /\ \E i \in 1..Len(edges) :
                           /\ edges[i].edge_type = ROLLBACK
                           /\ edges[i].source = batch[idx]
                           /\ edges[i].target = n]_vars

\* C33 witness: the rollback target of a failed node is running while the
\* failed node, on which it depends, is FAILED (the pattern of
\* test_conditional_branch_and_rollback)
C33_Witness ==
    /\ pc = "rollback"
    /\ nodes[batch[idx]].status = FAILED
    /\ LET rb == runner_calls[Len(runner_calls)]
       IN  /\ nodes[rb].status = RUNNING
           /\ <<batch[idx], rb>> \in DepPairs(edges)
           /\ \E i \in 1..Len(edges) :
                 edges[i] = TaskEdge(batch[idx], rb, ROLLBACK, <<>>)

C35_FailuresSettledAtReturn ==
    pc = "done" =>
        \A n \in DOMAIN nodes :
            /\ nodes[n].status # RUNNING
            /\ n \in node_failed => nodes[n].status \in {ROLLED_BACK, SKIPPED}
            /\ nodes[n].status = FAILED =>
                   /\ n \notin node_failed
                   /\ n \in Range(runner_calls)
                   /\ \E i \in 1..Len(edges) :
                         /\ edges[i].edge_type = ROLLBACK
                         /\ edges[i].target = n
                         /\ edges[i].source \in node_failed

\* C35 witness: execute() returned with a rollback target FAILED and the
\* batch member whose failure ran it ROLLED_BACK
C35_Witness ==
    /\ pc = "done"
    /\ \E i \in 1..Len(edges) :
          /\ edges[i].edge_type = ROLLBACK
          /\ edges[i].source \in node_failed
          /\ nodes[edges[i].source].status = ROLLED_BACK
          /\ nodes[edges[i].target].status = FAILED
    /\ \E n \in node_failed : nodes[n].status = SKIPPED

RollbackTargetsOf(s) == Range(GetRollbackTargets(Cur, s))

\* the step in which node s becomes ROLLED_BACK
BecomesRolledBack(s) ==
    nodes[s].status # ROLLED_BACK /\ nodes'[s].status = ROLLED_BACK

\* C37: failure handling is ordered. (1) A node becomes ROLLED_BACK only
\* in a step that starts with none of its rollback targets PENDING, and the
\* target whose run was awaited is then COMPLETED or FAILED with its output
\* merged. (2) While a rollback target is still to be run, no node is
\* skipped: the cascade comes after. (3) When a node fails with a PENDING
\* rollback target, that target is handed to the runner in the same step,
\* also when it is a DEPENDENCY successor of the failed node, and no
\* rollback target of a node is skipped by that node's own cascade.
C37_FailureHandlingOrdered ==
    [][/\ \A s \in NodeIds :
             BecomesRolledBack(s) =>
                \A t \in RollbackTargetsOf(s) :
                    /\ nodes[t].status # PENDING
                    /\ nodes'[t].status = SKIPPED => nodes[t].status = SKIPPED
                    /\ (pc = "rollback" /\ nodes[t].status = RUNNING
                            /\ t = GetRollbackTargets(Cur, s)[rb_idx]) =>
                          /\ nodes'[t].status \in {COMPLETED, FAILED}
                          /\ t \in DOMAIN node_results'
       /\ pc' = "rollback" =>
             \A n \in NodeIds : nodes'[n].status = SKIPPED => nodes[n].status = SKIPPED
       /\ \A s \in NodeIds :
             (s \in node_failed' \ node_failed
                 /\ \E t \in RollbackTargetsOf(s) : nodes[t].status = PENDING) =>
                /\ pc' = "rollback"
                /\ nodes'[s].status = FAILED
                /\ \E t \in RollbackTargetsOf(s) :
                      /\ nodes[t].status = PENDING
                      /\ nodes'[t].status = RUNNING
                      /\ runner_calls' = Append(runner_calls, t)]_vars

\* C37 witness: a node failed, its rollback target, which is also its
\* DEPENDENCY successor, was run and completed, and the node is ROLLED_BACK
C37_Witness ==
    /\ pc = "merge"
    /\ \E s \in node_failed :
          /\ nodes[s].status = ROLLED_BACK
          /\ \E t \in RollbackTargetsOf(s) :
                /\ <<s, t>> \in DepPairs(edges)
                /\ nodes[t].status = COMPLETED
                /\ t \in Range(runner_calls)
                /\ t \in DOMAIN node_results

\* no node reaches itself along DEPENDENCY edges
DependencyAcyclic == \A n \in NodeIds : n \notin DownstreamOfSpec(edges, n)

\* C38: on a graph whose DEPENDENCY edges are acyclic, when no rollback
\* target's run failed (a FAILED node at the return is always one, see
\* C35), execute() returns with the graph complete: every node COMPLETED,
\* SKIPPED or ROLLED_BACK.
C38_ReturnsComplete ==
    (pc = "done" /\ DependencyAcyclic
        /\ \A n \in DOMAIN nodes : nodes[n].status # FAILED)
    => /\ IsComplete(Cur)
       /\ \A n \in DOMAIN nodes : nodes[n].status \in Terminal

\* no two edges of the list share (source, target, edge_type)
NoDuplicateEdges(es) ==
    \A i, j \in 1..Len(es) :
        (/\ es[i].source = es[j].source
         /\ es[i].target = es[j].target
         /\ es[i].edge_type = es[j].edge_type) => i = j

\* every edge of the graph joins two of its nodes
NoDanglingEdges(g) ==
    \A i \in 1..Len(g.edges) :
        g.edges[i].source \in DOMAIN g.nodes /\ g.edges[i].target \in DOMAIN g.nodes

\* C39: when neither the old graph nor the replanned subtree has a
\* duplicate or a dangling edge, the graph _merge_dags returns has none.
C39_MergeKeepsEdgesWellFormed ==
    (/\ call # NoCall
     /\ call.op = "merge_dags"
     /\ NoDuplicateEdges(edges) /\ NoDanglingEdges(Cur)
     /\ NoDuplicateEdges(call.new_dag.edges) /\ NoDanglingEdges(call.new_dag))
    => /\ NoDuplicateEdges(ret.edges)
       /\ NoDanglingEdges(ret)

\* the original statement of C40, in the form a finite run refutes. Only
\* refresh_ready_states gives an ACTION node the status READY, and the next
\* thing execute() does after it is to ask get_ready_nodes(), which
\* returns the node; SKIPPED is never left during execute(). So the claim
\* that every ACTION node once returned is passed to the runner requires
\* that a READY ACTION node keeps its status until it is RUNNING.
C40_ReadyKeptUntilRun ==
    [][\A n \in DOMAIN nodes :
          (nodes[n].node_type = ACTION_NODE /\ nodes[n].status = READY) =>
             nodes'[n].status \in {READY, RUNNING}]_vars

\* node n is PENDING or READY with every DEPENDENCY predecessor COMPLETED:
\* get_ready_nodes() returns it whenever it is asked
IsReadyNow(n) == ~GetReadyNodesRaises(Cur) /\ n \in Range(GetReadyNodes(Cur))

\* C40: a ready ACTION node keeps its status while a batch it is left out
\* of runs; it leaves the ready nodes only by being passed to the runner
\* or by being set SKIPPED; and when execute() returns no ACTION node is
\* ready any more, so that every ACTION node once returned by
\* get_ready_nodes() has by then been passed to the runner or SKIPPED.
C40_ReadyIsRunOrSkipped ==
    /\ [](pc = "done" =>
            \A n \in DOMAIN nodes :
                nodes[n].node_type = ACTION_NODE => ~IsReadyNow(n))
    /\ [][\A n \in DOMAIN nodes :
             (nodes[n].node_type = ACTION_NODE /\ IsReadyNow(n)) =>
                /\ nodes'[n].status \in {PENDING, READY, RUNNING, SKIPPED}
                /\ nodes'[n].status = RUNNING => runner_calls' = Append(runner_calls, n)
                /\ (pc = "gather" /\ n \notin Range(batch)) =>
                      nodes'[n].status = nodes[n].status]_vars

\* C40 witness: execute() returned under a cap of one node a round; an
\* ACTION node whose DEPENDENCY predecessor completed, and which was ready
\* but left out of the batch, is SKIPPED and was never given to the runner
C40_Witness ==
    /\ pc = "done"
    /\ max_parallel = 1
    /\ \E n \in DOMAIN nodes :
          /\ nodes[n].node_type = ACTION_NODE
          /\ nodes[n].status = SKIPPED
          /\ n \notin Range(runner_calls)
          /\ \E p \in DepPairs(edges) : p[2] = n
          /\ \A p \in DepPairs(edges) : p[2] = n => nodes[p[1]].status = COMPLETED

====
